---- MODULE Spec2Model ----
(***************************************************************************)
(* A state-machine model of the python-ivi instrument drivers:             *)
(*   ivi/load.py (generic load), ivi/scpi/load.py (SCPI load),             *)
(*   ivi/bk/bk8542B.py, ivi/sun/sunEC1X.py,                                *)
(*   ivi/tektronix/tektronixBaseRSA.py.                                    *)
(* One behaviour is one driver instance: Init constructs it, every step is *)
(* one attribute get, attribute set or method call issued by the client.   *)
(* The transport (self._write / self._ask) is the environment: each call   *)
(* is recorded, an ask returns a reply chosen by the instrument, and a     *)
(* call may raise.                                                         *)
(***************************************************************************)
EXTENDS Integers, Sequences, FiniteSets, TLC

VARIABLES
    driver,        \* the concrete driver class that was instantiated
    simulate,      \* _driver_operation_simulate
    identity,      \* self._identity_instrument_model, as the sequence of its parts
    channel,       \* load: self._channel (the current selection)
    channel_name,  \* load: self._channel_name
    channel_mode,  \* load: self._channel_mode
    channel_field, \* load: the other per-channel lists (self._channel_voltage_on, ...)
    trigger,       \* load: self._trigger_delay, _trigger_delay_auto, _trigger_source
    fld,           \* RSA: the backing fields (self._frequency_center, ...)
    cache_valid,   \* RSA: validity flag per cache tag
    last,          \* the last operation: what was called, how it ended, what it sent
    touched,       \* TRUE once self._write or self._ask has been called
    nops           \* number of operations issued so far

vars == <<driver, simulate, identity, channel, channel_name, channel_mode,
          channel_field, trigger, fld, cache_valid, last, touched, nops>>

ConfigVars == <<driver, simulate, identity>>
FieldVars == <<channel_field, trigger>>
LoadVars == <<channel, channel_name, channel_mode, FieldVars>>
RsaVars == <<fld, cache_valid>>

-----------------------------------------------------------------------------
(* Bounds of the model *)

\* largest number a client passes or the instrument replies
MaxVal == 1
\* number of operations issued on one driver instance
MaxOps == 2

-----------------------------------------------------------------------------
(* Python values.  One record shape for every value, so that values of     *)
(* different Python types can be stored in the same variable.              *)

Num(n) == [k |-> "num", n |-> n, s |-> ""]
Str(t) == [k |-> "str", n |-> 0, s |-> t]
Bool(b) == [k |-> "bool", n |-> IF b THEN 1 ELSE 0, s |-> ""]
None == [k |-> "none", n |-> 0, s |-> ""]
\* the float 0.1, the one number of the drivers that is not whole
Tenth == [k |-> "num", n |-> 0, s |-> "0.1"]
\* an attribute that the object does not have
Unset == [k |-> "unset", n |-> 0, s |-> ""]

Vals == 0..MaxVal

\* str(x)
PyStr(v) == IF v.k = "str" THEN v.s
            ELSE IF v.k = "num" THEN ToString(v.n)
            ELSE IF v.k = "bool" THEN (IF v.n = 1 THEN "True" ELSE "False")
            ELSE "None"

\* bool(x)
PyBool(v) == IF v.k = "str" THEN v.s # "" ELSE v.n # 0

\* "%f" % x, "%e" % x and f"{x}" of a float holding a small whole number
FmtF(n) == ToString(n) \o ".000000"
FmtE(n) == ToString(n) \o ".000000e+00"
FmtStr(n) == ToString(n) \o ".0"

\* the numbers of the model, and the tokens that float() accepts: the
\* numerals with and without a fraction
Floats == (0 - MaxVal)..MaxVal
IsNumStr(s) == \E n \in Floats : s \in {ToString(n), FmtStr(n)}
ParseNum(s) == CHOOSE n \in Floats : s \in {ToString(n), FmtStr(n)}
\* int(s) accepts the numerals without a fraction
IsIntStr(s) == \E n \in Floats : s = ToString(n)

\* float(x) raises ValueError on a string that is no numeral and TypeError on None
IsFloatable(v) == v.k \in {"num", "bool"} \/ (v.k = "str" /\ IsNumStr(v.s))
FloatOf(v) == IF v.k = "str" THEN ParseNum(v.s) ELSE v.n
FloatError(v) == IF v.k = "none" THEN "TypeError" ELSE "ValueError"

\* s.upper() and s.lower() on the strings of the model
Upper(s) == CASE s = "ch1" -> "CH1"
              [] s = "a" -> "A"
              [] s = "x" -> "X"
              [] s = "min" -> "MIN"
              [] s = "max" -> "MAX"
              [] s = "int" -> "INT"
              [] s = "ext" -> "EXT"
              [] s = "dbm" -> "DBM"
              [] s = "watt" -> "WATT"
              [] s = "current" -> "CURRENT"
              [] s = "power" -> "POWER"
              [] OTHER -> s

Lower(s) == CASE s = "CH1" -> "ch1"
              [] s = "A" -> "a"
              [] s = "X" -> "x"
              [] s = "MIN" -> "min"
              [] s = "MAX" -> "max"
              [] s = "INT" -> "int"
              [] s = "EXT" -> "ext"
              [] s = "DBM" -> "dbm"
              [] s = "WATT" -> "watt"
              [] s = "CURRENT" -> "current"
              [] s = "POWER" -> "power"
              [] OTHER -> s

-----------------------------------------------------------------------------
(* The transport and the record of the last operation *)

\* a transport call returns or raises
IO == {"ok", "raise"}

\* the numeric replies of the instrument
NumReplies == {ToString(n) : n \in Vals}

NoOp == [op |-> "none", name |-> "", status |-> "ok", ret |-> None, sent |-> <<>>]

\* An operation ends: status "ok" or the exception that reached the caller,
\* ret the value returned, sent the transport calls it made (the raising one
\* included), in order.
Done(op, name, status, ret, sent) ==
    /\ last' = [op |-> op, name |-> name, status |-> status, ret |-> ret, sent |-> sent]
    /\ touched' = (touched \/ sent # <<>>)
    /\ nops' = nops + 1

\* An operation ends without having changed the driver's state.
Ends(op, name, status, ret, sent) ==
    /\ Done(op, name, status, ret, sent)
    /\ UNCHANGED <<ConfigVars, LoadVars, RsaVars>>

-----------------------------------------------------------------------------
(* Value cache of ivi.Driver: one validity flag per tag.  The tag of a      *)
(* call without a tag argument is the name of the calling getter or setter *)
(* without its _get_ / _set_ prefix.                                       *)

Tags == {"identity_instrument_model", "frequency_start", "frequency_stop", "frequency_center", "frequency_span",
         "frequency_offset", "level_reference", "level_reference_offset",
         "sweep_coupling_resolution_bandwidth",
         "sweep_coupling_resolution_bandwidth_auto",
         "sweep_coupling_sweep_time", "sweep_coupling_video_bandwidth",
         "rf_power_mode", "rf_power_span", "alc_source",
         "acquisition_detector_type", "acquisition_vertical_scale"}

get_cache_valid(cv, tag) == cv[tag]

set_cache_valid(cv, valid, tag) == [cv EXCEPT ![tag] = valid]

RECURSIVE set_cache_valid_all(_, _, _)
\* a run of _set_cache_valid(valid, tag) calls, one for each tag of the sequence
set_cache_valid_all(cv, valid, tags) ==
    IF tags = <<>> THEN cv
    ELSE set_cache_valid_all(set_cache_valid(cv, valid, Head(tags)), valid, Tail(tags))

invalidate_all_attributes(cv) == [t \in DOMAIN cv |-> FALSE]

-----------------------------------------------------------------------------
(* tektronixBaseRSA: backing fields *)

Fields == {"frequency_start", "frequency_stop", "frequency_center", "frequency_span",
           "frequency_offset", "level_reference", "level_reference_offset",
           "sweep_coupling_resolution_bandwidth",
           "sweep_coupling_resolution_bandwidth_auto",
           "sweep_coupling_video_bandwidth", "rf_power_mode", "alc_source",
           "acquisition_detector_type", "acquisition_vertical_scale"}

PowerMode == {"fixed", "sweep"}

\* the cached numeric getter, as every _get_<tag> of the driver is written:
\*   if not simulate and not cache valid: self._<store> = float(ask(cmd)); set valid
\*   return self._<ret>
\* a cached getter that asks the instrument whether or not its entry is valid
CachedGetFloat_uncached(tag, cmd, store, ret, reply, io) ==
    IF ~simulate
    THEN IF io = "raise"
         THEN Ends("get", tag, "IOError", None, <<cmd>>)
         ELSE IF ~IsNumStr(reply)
         THEN Ends("get", tag, "ValueError", None, <<cmd>>)
         ELSE /\ fld' = [fld EXCEPT ![store] = Num(ParseNum(reply))]
              /\ cache_valid' = set_cache_valid(cache_valid, TRUE, tag)
              /\ Done("get", tag, "ok", fld'[ret], <<cmd>>)
              /\ UNCHANGED <<ConfigVars, LoadVars>>
    ELSE Ends("get", tag, "ok", fld[ret], <<>>)

CachedGetFloat(tag, cmd, store, ret, reply, io) ==
    IF ~simulate /\ ~get_cache_valid(cache_valid, tag)
    THEN IF io = "raise"
         THEN Ends("get", tag, "IOError", None, <<cmd>>)
         ELSE IF ~IsNumStr(reply)
         THEN Ends("get", tag, "ValueError", None, <<cmd>>)
         ELSE /\ fld' = [fld EXCEPT ![store] = Num(ParseNum(reply))]
              /\ cache_valid' = set_cache_valid(cache_valid, TRUE, tag)
              /\ Done("get", tag, "ok", fld'[ret], <<cmd>>)
              /\ UNCHANGED <<ConfigVars, LoadVars>>
    ELSE Ends("get", tag, "ok", fld[ret], <<>>)

\* the cached numeric setter:
\*   value = float(value); if not simulate: write(cmd); self._<tag> = value;
\*   set valid; then the setter's own list of _set_cache_valid(False, ...) calls
CachedSetFloat(tag, cmd, value, io, invalid) ==
    IF ~IsFloatable(value)
    THEN Ends("set", tag, FloatError(value), None, <<>>)
    ELSE IF ~simulate /\ io = "raise"
    THEN Ends("set", tag, "IOError", None, <<cmd>>)
    ELSE /\ fld' = [fld EXCEPT ![tag] = Num(FloatOf(value))]
         /\ cache_valid' = set_cache_valid_all(set_cache_valid(cache_valid, TRUE, tag),
                                                FALSE, invalid)
         /\ Done("set", tag, "ok", None, IF simulate THEN <<>> ELSE <<cmd>>)
         /\ UNCHANGED <<ConfigVars, LoadVars>>

get_frequency_start(reply, io) ==
    CachedGetFloat("frequency_start", "fa?", "frequency_start", "frequency_start", reply, io)

set_frequency_start(value, io) ==
    CachedSetFloat("frequency_start",
                   IF IsFloatable(value) THEN "fa " \o FmtF(FloatOf(value)) \o " hz" ELSE "",
                   value, io,
                   <<"frequency_center", "frequency_span",
                     "sweep_coupling_resolution_bandwidth", "sweep_coupling_sweep_time",
                     "sweep_coupling_video_bandwidth">>)

get_frequency_stop(reply, io) ==
    CachedGetFloat("frequency_stop", "fb?", "frequency_stop", "frequency_stop", reply, io)

get_frequency_center(reply, io) ==
    CachedGetFloat("frequency_center", "cf?", "frequency_center", "frequency_center", reply, io)

\* set_frequency_center with the invalidation list frequency.start and
\* frequency.span in place of the one the setter carries
set_frequency_center_span(value, io) ==
    CachedSetFloat("frequency_center",
                   IF IsFloatable(value) THEN "cf " \o FmtF(FloatOf(value)) \o " hz" ELSE "",
                   value, io,
                   <<"frequency_start", "frequency_span",
                     "sweep_coupling_resolution_bandwidth", "sweep_coupling_sweep_time",
                     "sweep_coupling_video_bandwidth">>)

set_frequency_center(value, io) ==
    CachedSetFloat("frequency_center",
                   IF IsFloatable(value) THEN "cf " \o FmtF(FloatOf(value)) \o " hz" ELSE "",
                   value, io,
                   <<"frequency_start", "frequency_stop",
                     "sweep_coupling_resolution_bandwidth", "sweep_coupling_sweep_time",
                     "sweep_coupling_video_bandwidth">>)

get_frequency_span(reply, io) ==
    CachedGetFloat("frequency_span", "sp?", "frequency_span", "frequency_span", reply, io)

set_frequency_span(value, io) ==
    CachedSetFloat("frequency_span",
                   IF IsFloatable(value) THEN "sp " \o FmtF(FloatOf(value)) \o " hz" ELSE "",
                   value, io,
                   <<"frequency_start", "frequency_stop",
                     "sweep_coupling_resolution_bandwidth", "sweep_coupling_sweep_time",
                     "sweep_coupling_video_bandwidth">>)

\* stores the reply in _frequency_stop and returns _frequency_offset
get_frequency_offset(reply, io) ==
    CachedGetFloat("frequency_offset", "foffset?", "frequency_stop", "frequency_offset", reply, io)

\* stores the reply in _level_reference and returns _level_reference_offset
get_level_reference_offset(reply, io) ==
    CachedGetFloat("level_reference_offset", "roffset?", "level_reference",
                   "level_reference_offset", reply, io)

get_sweep_coupling_resolution_bandwidth(reply, io) ==
    CachedGetFloat("sweep_coupling_resolution_bandwidth", "rb?",
                   "sweep_coupling_resolution_bandwidth",
                   "sweep_coupling_resolution_bandwidth", reply, io)

set_sweep_coupling_resolution_bandwidth(value, io) ==
    IF ~IsFloatable(value)
    THEN Ends("set", "sweep_coupling_resolution_bandwidth", FloatError(value), None, <<>>)
    ELSE LET cmd == "rb " \o FmtE(FloatOf(value)) \o " hz" IN
         IF ~simulate /\ io = "raise"
         THEN Ends("set", "sweep_coupling_resolution_bandwidth", "IOError", None, <<cmd>>)
         ELSE /\ fld' = [fld EXCEPT !["sweep_coupling_resolution_bandwidth"] = Num(FloatOf(value)),
                                     !["sweep_coupling_resolution_bandwidth_auto"] = Bool(FALSE)]
              /\ cache_valid' = set_cache_valid(
                                    set_cache_valid(cache_valid, TRUE,
                                                    "sweep_coupling_resolution_bandwidth"),
                                    TRUE, "sweep_coupling_resolution_bandwidth_auto")
              /\ Done("set", "sweep_coupling_resolution_bandwidth", "ok", None,
                      IF simulate THEN <<>> ELSE <<cmd>>)
              /\ UNCHANGED <<ConfigVars, LoadVars>>

get_sweep_coupling_resolution_bandwidth_auto ==
    Ends("get", "sweep_coupling_resolution_bandwidth_auto", "ok",
         fld["sweep_coupling_resolution_bandwidth_auto"], <<>>)

\* value = bool(value)
\* if not simulate: if value: write("rb auto")
\*                  else: self._set_rb(self._get_rb())     (an ask, then a write)
\* self._rb_auto = value; set valid
set_sweep_coupling_resolution_bandwidth_auto(value, reply, askIo, writeIo) ==
    LET tag == "sweep_coupling_resolution_bandwidth_auto"
        rb == "sweep_coupling_resolution_bandwidth"
        stored == /\ fld' = [fld EXCEPT ![tag] = Bool(PyBool(value))]
                  /\ cache_valid' = set_cache_valid(cache_valid, TRUE, tag)
    IN
    IF simulate
    THEN /\ stored
         /\ Done("set", tag, "ok", None, <<>>)
         /\ UNCHANGED <<ConfigVars, LoadVars>>
    ELSE IF PyBool(value)
    THEN IF writeIo = "raise"
         THEN Ends("set", tag, "IOError", None, <<"rb auto">>)
         ELSE /\ stored
              /\ Done("set", tag, "ok", None, <<"rb auto">>)
              /\ UNCHANGED <<ConfigVars, LoadVars>>
    ELSE \* the nested getter
         LET asks == ~get_cache_valid(cache_valid, rb)
             sent1 == IF asks THEN <<"rb?">> ELSE <<>>
             fld1 == IF asks THEN [fld EXCEPT ![rb] = Num(ParseNum(reply))] ELSE fld
             cv1 == IF asks THEN set_cache_valid(cache_valid, TRUE, rb) ELSE cache_valid
             cmd == "rb " \o FmtE(fld1[rb].n) \o " hz"
         IN
         IF asks /\ askIo = "raise"
         THEN Ends("set", tag, "IOError", None, sent1)
         ELSE IF writeIo = "raise"
         THEN \* the nested setter's write raises after the nested getter has stored
              /\ fld' = fld1
              /\ cache_valid' = cv1
              /\ Done("set", tag, "IOError", None, sent1 \o <<cmd>>)
              /\ UNCHANGED <<ConfigVars, LoadVars>>
         ELSE /\ fld' = [fld1 EXCEPT ![tag] = Bool(FALSE)]
              /\ cache_valid' = set_cache_valid(set_cache_valid(cv1, TRUE, rb), TRUE, tag)
              /\ Done("set", tag, "ok", None, sent1 \o <<cmd>>)
              /\ UNCHANGED <<ConfigVars, LoadVars>>

\* stores the reply in _sweep_coupling_resolution_bandwidth and returns
\* _sweep_coupling_video_bandwidth
get_sweep_coupling_video_bandwidth(reply, io) ==
    CachedGetFloat("sweep_coupling_video_bandwidth", "vb?",
                   "sweep_coupling_resolution_bandwidth",
                   "sweep_coupling_video_bandwidth", reply, io)

get_rf_power_mode == Ends("get", "rf_power_mode", "ok", fld["rf_power_mode"], <<>>)

set_rf_power_mode(value, io) ==
    IF ~(value.k = "str" /\ value.s \in PowerMode)
    THEN Ends("set", "rf_power_mode", "ValueNotSupportedException", None, <<>>)
    ELSE LET cmd == "srcpswp " \o (IF value.s = "sweep" THEN "on" ELSE "off") IN
         IF ~simulate /\ io = "raise"
         THEN Ends("set", "rf_power_mode", "IOError", None, <<cmd>>)
         ELSE /\ fld' = [fld EXCEPT !["rf_power_mode"] = value]
              /\ cache_valid' = set_cache_valid(
                                    set_cache_valid(cache_valid, FALSE, "rf_power_span"),
                                    TRUE, "rf_power_mode")
              /\ Done("set", "rf_power_mode", "ok", None, IF simulate THEN <<>> ELSE <<cmd>>)
              /\ UNCHANGED <<ConfigVars, LoadVars>>

-----------------------------------------------------------------------------
(* tektronixBaseRSA: attributes and methods that are not cached *)

OscillatorSources == {"EXT", "INT"}
AmplitudeUnits == {"DBM", "DBV", "VOLT", "WATT", "DBUW", "DBW",
                   "DBUV", "DBMV", "DBUA", "DBUV_M", "DBUA_M", "AMP"}

\* the replies of the instrument to ROSC:SOUR?, POW:UNIT? and ROSC:EXT:TIME:STAT?
TokenReplies == {"INT", "EXT", "DBM", "1", "0"}

\* return self._ask('ROSC:SOUR?').lower()
get_oscillator_source(reply, io) ==
    IF io = "raise"
    THEN Ends("get", "oscillator_source", "IOError", None, <<"ROSC:SOUR?">>)
    ELSE Ends("get", "oscillator_source", "ok", Str(Lower(reply)), <<"ROSC:SOUR?">>)

\* if value.lower() in OscillatorSources: write(...) else: raise
set_oscillator_source(value, io) ==
    IF value.k # "str"
    THEN Ends("set", "oscillator_source", "AttributeError", None, <<>>)
    ELSE IF Lower(value.s) \in OscillatorSources
    THEN LET cmd == "ROSC:SOUR " \o Upper(value.s) IN
         Ends("set", "oscillator_source", IF io = "raise" THEN "IOError" ELSE "ok",
              None, <<cmd>>)
    ELSE Ends("set", "oscillator_source", "ValueNotSupportedException", None, <<>>)

\* return self._ask('ROSC:EXT:TIME:STAT?') == '1'
get_oscillator_locked(reply, io) ==
    IF io = "raise"
    THEN Ends("get", "oscillator_locked", "IOError", None, <<"ROSC:EXT:TIME:STAT?">>)
    ELSE Ends("get", "oscillator_locked", "ok", Bool(reply = "1"), <<"ROSC:EXT:TIME:STAT?">>)

\* return self._ask("POW:UNIT?").lower()
get_level_amplitude_units(reply, io) ==
    IF io = "raise"
    THEN Ends("get", "level_amplitude_units", "IOError", None, <<"POW:UNIT?">>)
    ELSE Ends("get", "level_amplitude_units", "ok", Str(Lower(reply)), <<"POW:UNIT?">>)

\* value = value.lower(); if value not in AmplitudeUnits: raise
\* if not simulate: write(f'POW:UNIT {value.upper()}')
set_level_amplitude_units(value, io) ==
    IF value.k # "str"
    THEN Ends("set", "level_amplitude_units", "AttributeError", None, <<>>)
    ELSE IF Lower(value.s) \notin AmplitudeUnits
    THEN Ends("set", "level_amplitude_units", "ValueNotSupportedException", None, <<>>)
    ELSE LET cmd == "POW:UNIT " \o Upper(Lower(value.s)) IN
         IF simulate
         THEN Ends("set", "level_amplitude_units", "ok", None, <<>>)
         ELSE Ends("set", "level_amplitude_units", IF io = "raise" THEN "IOError" ELSE "ok",
                   None, <<cmd>>)

\* a method whose body is one unguarded self._write(cmd)
WriteMethod(name, cmd, io) ==
    Ends("call", name, IF io = "raise" THEN "IOError" ELSE "ok", None, <<cmd>>)

acquisition_abort(io) == WriteMethod("acquisition_abort", "ABOR", io)

acquisition_start(io) == WriteMethod("acquisition_start", "INIT:IMM;*WAI", io)

acquisition_resume(io) == WriteMethod("acquisition_resume", "INIT:RES;*WAI", io)

spurious_preset(io) == WriteMethod("spurious_preset", "SYST:PRES:APPL SPUR", io)

\* _system_display_string(string):
\*   if not simulate: write("PU"); write("PA 8,137"); write("HD"); write("TEXT \\%s\\" % string)
\* failAt = n > 0: the n-th write raises
system_display_string(string, failAt) ==
    LET writes == <<"PU", "PA 8,137", "HD", "TEXT \\" \o PyStr(string) \o "\\">> IN
    IF simulate THEN Ends("call", "system_display_string", "ok", None, <<>>)
    ELSE IF failAt > 0
    THEN Ends("call", "system_display_string", "IOError", None, SubSeq(writes, 1, failAt))
    ELSE Ends("call", "system_display_string", "ok", None, writes)

\* if not simulate: write("IP"); invalidate_all_attributes()
rsa_utility_reset(io) ==
    IF simulate
    THEN Ends("call", "utility_reset", "ok", None, <<>>)
    ELSE IF io = "raise"
    THEN Ends("call", "utility_reset", "IOError", None, <<"IP">>)
    ELSE /\ cache_valid' = invalidate_all_attributes(cache_valid)
         /\ Done("call", "utility_reset", "ok", None, <<"IP">>)
         /\ UNCHANGED <<ConfigVars, LoadVars, fld>>

memory_size == 9

\* index = int(index); out of range: raise OutOfRangeException()  (a name the
\* module does not define); if not simulate: self._write("SAVES %d" % index+1),
\* where "SAVES %d" % index is formatted first and adding 1 to it raises
memory_save(index) ==
    IF ~IsFloatable(index)
    THEN Ends("call", "memory_save", FloatError(index), None, <<>>)
    ELSE IF FloatOf(index) < 0 \/ FloatOf(index) >= memory_size
    THEN Ends("call", "memory_save", "NameError", None, <<>>)
    ELSE IF ~simulate
    THEN Ends("call", "memory_save", "TypeError", None, <<>>)
    ELSE Ends("call", "memory_save", "ok", None, <<>>)

memory_recall(index) ==
    IF ~IsFloatable(index)
    THEN Ends("call", "memory_recall", FloatError(index), None, <<>>)
    ELSE IF FloatOf(index) < 0 \/ FloatOf(index) >= memory_size
    THEN Ends("call", "memory_recall", "NameError", None, <<>>)
    ELSE IF ~simulate
    THEN Ends("call", "memory_recall", "TypeError", None, <<>>)
    ELSE Ends("call", "memory_recall", "ok", None, <<>>)

-----------------------------------------------------------------------------
(* tektronixBaseRSA: configuration groups.  A settings table is the ordered *)
(* list of its entries <<key, cast, mnemonic>>; a dictionary passed by the  *)
(* client is the ordered list of its items <<key, value>>.                  *)

SpurTraceSettings ==
    << <<"count", "int", "COUN">>, <<"count_enabled", "onoff", "COUN:ENAB">>,
       <<"enabled", "onoff", "ENAB">>, <<"frozen", "onoff", "FRE">>,
       <<"function", "str", "FUNC">>, <<"selected", "int", "SEL">> >>

SpurRangeSettings ==
    << <<"video_bandwidth", "float", "BAND:VID">>,
       <<"video_bandwidth_enabled", "onoff", "BAND:VID:STAT">>,
       <<"detection", "str", "DET">>, <<"excursion", "float", "EXC">>,
       <<"filter_shape", "str", "FILT:SHAP">>,
       <<"filter_shape_bandwidth", "float", "FILT:SHAP:BAND">>,
       <<"filter_shape_bandwidth_auto", "onoff", "FILT:SHAP:BAND:AUTO">>,
       <<"frequency_start", "float", "FREQ:STAR">>,
       <<"frequency_stop", "float", "FREQ:STOP">>,
       <<"limit_absolute_start", "float", "LIM:ABS:STAR">>,
       <<"limit_absolute_stop", "float", "LIM:ABS:STOP">>,
       <<"limit_relative_start", "float", "LIM:REL:STAR">>,
       <<"limit_relative_stop", "float", "LIM:REL:STOP">>,
       <<"limit_mask", "str", "LIM:MASK">>, <<"state", "onoff", "STAT">>,
       <<"threshold", "float", "THR">> >>

SpurSettings ==
    << <<"list", "str", "LIST">>, <<"mode", "str", "MODE">>,
       <<"optimization", "str", "OPT">>, <<"points_count", "str", "POIN:COUN">>,
       <<"reference", "str", "REF">>, <<"reference_power", "float", "REF:MAN:POW">> >>

SpurCarrierSettings ==
    << <<"bandwidth", "float", "BAND">>,
       <<"bandwidth_integration", "float", "BAND:INT">>,
       <<"bandwidth_resolution", "float", "BAND:RES">>,
       <<"bandwidth_resolution_auto", "onoff", "BAND:RES:AUTO">> >>

DisplaySpurSettings ==
    << <<"marker_show_state", "onoff", "MARK:SHOW:STAT">>,
       <<"scale_log_state", "onoff", "SCAL:LOG:STAT">>,
       <<"select_number", "round", "SEL:NUMB">>,
       <<"graticule_grid", "onoff", "WIND:TRAC:GRAT:GRID:STAT">>,
       <<"x_start", "float", "X:STAR">>, <<"x_stop", "float", "X:STOP">>,
       <<"y_range", "float", "Y">>, <<"y_offset", "float", "Y:OFFS">> >>

SpurPrefix == ":SPUR"
SpurCarrierPrefix == ":SPUR:CARR"
DisplaySpurPrefix == ":DISP:SPUR"
\* SpurTraceTemplate % (index+1) and SpurRangeTemplate % (index+1)
SpurTracePrefix(index) == ":TRAC" \o ToString(index + 1) \o ":SPUR"
SpurRangePrefix(index) == ":SPUR:RANG" \o ToString(index + 1)

SettingKeys(settings) == {settings[i][1] : i \in DOMAIN settings}
Setting(settings, key) == settings[CHOOSE i \in DOMAIN settings : settings[i][1] = key]

\* settings[k][0](x): whether the cast raises, and the text of its result in
\* an f-string
CastOk(cast, v) ==
    CASE cast \in {"float", "int", "round"} -> IsFloatable(v)
      [] OTHER -> TRUE
\* onoff(x)
onoff(x) ==
    IF x.k = "str" THEN Bool(Upper(x.s) \in {"1", "ON"})
    ELSE IF x.k = "bool" THEN Str(IF x.n = 1 THEN "1" ELSE "0")
    ELSE None

CastText(cast, v) ==
    CASE cast = "float" -> FmtStr(FloatOf(v))
      [] cast \in {"int", "round"} -> ToString(FloatOf(v))
      [] cast = "str" -> PyStr(v)
      [] cast = "onoff" -> PyStr(onoff(v))

RECURSIVE ConfigWrites(_, _, _)
\* the loop of _set_config: the commands written for the items of values, in
\* order, up to the first item that raises
ConfigWrites(settings, prefix, values) ==
    IF values = <<>> THEN <<>>
    ELSE LET k == Head(values)[1]
             v == Head(values)[2]
         IN IF k \notin SettingKeys(settings) THEN <<>>
            ELSE IF ~CastOk(Setting(settings, k)[2], v) THEN <<>>
            ELSE <<prefix \o ":" \o Setting(settings, k)[3] \o " "
                     \o CastText(Setting(settings, k)[2], v)>>
                 \o ConfigWrites(settings, prefix, Tail(values))

RECURSIVE ConfigStatus(_, _)
\* how the loop of _set_config ends when no write raises
ConfigStatus(settings, values) ==
    IF values = <<>> THEN "ok"
    ELSE LET k == Head(values)[1]
             v == Head(values)[2]
         IN IF k \notin SettingKeys(settings) THEN "ValueNotSupportedException"
            ELSE IF ~CastOk(Setting(settings, k)[2], v) THEN FloatError(v)
            ELSE ConfigStatus(settings, Tail(values))

\* if not simulate: for k in values: if k in settings: write(...) else: raise
\* failAt = n > 0: the n-th write raises
set_config(name, settings, prefix, values, failAt) ==
    IF simulate
    THEN Ends("set", name, "ok", None, <<>>)
    ELSE LET writes == ConfigWrites(settings, prefix, values) IN
         IF failAt > 0 /\ failAt <= Len(writes)
         THEN Ends("set", name, "IOError", None, SubSeq(writes, 1, failAt))
         ELSE Ends("set", name, ConfigStatus(settings, values), None, writes)

\* if not simulate: return dict([(k, cast(ask(f'{prefix}:{q}?'))) for k in settings])
\* failAt = n > 0: the n-th ask raises
get_config(name, settings, prefix, reply, failAt) ==
    IF simulate
    THEN Ends("get", name, "ok", None, <<>>)
    ELSE LET asks == [i \in DOMAIN settings |-> prefix \o ":" \o settings[i][3] \o "?"] IN
         IF failAt > 0 /\ failAt <= Len(asks)
         THEN Ends("get", name, "IOError", None, SubSeq(asks, 1, failAt))
         ELSE Ends("get", name, "ok", [k |-> "dict", n |-> Len(settings), s |-> ""], asks)

get_spurious_ranges_config(index, reply, failAt) ==
    get_config("spurious_ranges_config", SpurRangeSettings, SpurRangePrefix(index), reply, failAt)

set_spurious_ranges_config(index, values, failAt) ==
    set_config("spurious_ranges_config", SpurRangeSettings, SpurRangePrefix(index), values, failAt)

get_spurious_traces_config(index, reply, failAt) ==
    get_config("spurious_traces_config", SpurTraceSettings, SpurTracePrefix(index), reply, failAt)

set_spurious_traces_config(index, values, failAt) ==
    set_config("spurious_traces_config", SpurTraceSettings, SpurTracePrefix(index), values, failAt)

get_spurious_carrier_config(reply, failAt) ==
    get_config("spurious_carrier_config", SpurCarrierSettings, SpurCarrierPrefix, reply, failAt)

set_spurious_carrier_config(values, failAt) ==
    set_config("spurious_carrier_config", SpurCarrierSettings, SpurCarrierPrefix, values, failAt)

get_spurious_config(reply, failAt) ==
    get_config("spurious_config", SpurSettings, SpurPrefix, reply, failAt)

\* def _set_spurious_config(self, index, values): the property setter is called
\* with the value alone, so the call itself raises
set_spurious_config(values) ==
    Ends("set", "spurious_config", "TypeError", None, <<>>)

get_display_spurious_config(reply, failAt) ==
    get_config("display_spurious_config", DisplaySpurSettings, DisplaySpurPrefix, reply, failAt)

set_display_spurious_config(values, failAt) ==
    set_config("display_spurious_config", DisplaySpurSettings, DisplaySpurPrefix, values, failAt)

-----------------------------------------------------------------------------
(* sunEC1X *)

\* the registrations of sunEC1X with a setter behind hour_meter
sun_setter_hour_meter(path) ==
    CASE path = "identity.instrument_serial_number" -> "None"
      [] path = "cooler_enabled" -> "set_cooler_enabled"
      [] path = "heater_enabled" -> "set_heater_enabled"
      [] path = "chamber_temperature" -> "None"
      [] path = "chamber_temperature_setpoint" -> "set_temperature_setpoint"
      [] path = "chamber_rate" -> "set_chamber_rate"
      [] path = "user_temperature" -> "None"
      [] path = "temperature_unit" -> "None"
      [] path = "upper_temperature_limit" -> "set_upper_temperature_limit"
      [] path = "lower_temperature_limit" -> "set_lower_temperature_limit"
      [] path = "hour_meter" -> "set_chamber_rate"

\* the properties registered by sunEC1X.__init__: path -> setter ("None": the
\* property is registered with a getter only)
sun_setter(path) ==
    CASE path = "identity.instrument_serial_number" -> "None"
      [] path = "cooler_enabled" -> "set_cooler_enabled"
      [] path = "heater_enabled" -> "set_heater_enabled"
      [] path = "chamber_temperature" -> "None"
      [] path = "chamber_temperature_setpoint" -> "set_temperature_setpoint"
      [] path = "chamber_rate" -> "set_chamber_rate"
      [] path = "user_temperature" -> "None"
      [] path = "temperature_unit" -> "None"
      [] path = "upper_temperature_limit" -> "set_upper_temperature_limit"
      [] path = "lower_temperature_limit" -> "set_lower_temperature_limit"
      [] path = "hour_meter" -> "None"

SunPaths == {"identity.instrument_serial_number", "cooler_enabled", "heater_enabled",
             "chamber_temperature", "chamber_temperature_setpoint", "chamber_rate",
             "user_temperature", "temperature_unit", "upper_temperature_limit",
             "lower_temperature_limit", "hour_meter"}

\* if simulate: return 0 else: return float(self._ask(cmd))
SunGetFloat(path, cmd, reply, io) ==
    IF simulate THEN Ends("get", path, "ok", Num(0), <<>>)
    ELSE IF io = "raise" THEN Ends("get", path, "IOError", None, <<cmd>>)
    ELSE IF ~IsNumStr(reply) THEN Ends("get", path, "ValueError", None, <<cmd>>)
    ELSE Ends("get", path, "ok", Num(ParseNum(reply)), <<cmd>>)

\* if not simulate: self._write(cmd); return True
SunSet(path, cmd, io) ==
    IF simulate THEN Ends("set", path, "ok", Bool(TRUE), <<>>)
    ELSE IF io = "raise" THEN Ends("set", path, "IOError", None, <<cmd>>)
    ELSE Ends("set", path, "ok", Bool(TRUE), <<cmd>>)

get_temperature(reply, io) == SunGetFloat("chamber_temperature", "TEMP?", reply, io)

get_user_temperature(reply, io) == SunGetFloat("user_temperature", "USER?", reply, io)

get_hour_meter(reply, io) == SunGetFloat("hour_meter", "TIMEE?", reply, io)

get_chamber_rate(reply, io) == SunGetFloat("chamber_rate", "RATE?", reply, io)

\* try: return float(response) except: return None
get_temperature_setpoint(reply, io) ==
    IF simulate THEN Ends("get", "chamber_temperature_setpoint", "ok", Num(0), <<>>)
    ELSE IF io = "raise"
    THEN Ends("get", "chamber_temperature_setpoint", "IOError", None, <<"SET?">>)
    ELSE Ends("get", "chamber_temperature_setpoint", "ok",
              IF IsNumStr(reply) THEN Num(ParseNum(reply)) ELSE None, <<"SET?">>)

set_temperature_setpoint(path, value, io) == SunSet(path, "SET=" \o PyStr(value), io)

set_chamber_rate(path, value, io) == SunSet(path, "RATE=" \o PyStr(value), io)

set_upper_temperature_limit(path, value, io) == SunSet(path, "UTL=" \o PyStr(value), io)

set_lower_temperature_limit(path, value, io) == SunSet(path, "LTL=" \o PyStr(value), io)

set_heater_enabled(path, value, io) ==
    SunSet(path, IF PyBool(value) THEN "HON" ELSE "HOFF", io)

set_cooler_enabled(path, value, io) ==
    SunSet(path, IF PyBool(value) THEN "CON" ELSE "COFF", io)

\* self._write('ON'); self._write('STOPE9'); self._write('ON')
\* failAt = n > 0: the n-th write raises
sun_utility_reset(failAt) ==
    LET writes == <<"ON", "STOPE9", "ON">> IN
    IF failAt > 0
    THEN Ends("call", "utility_reset", "IOError", None, SubSeq(writes, 1, failAt))
    ELSE Ends("call", "utility_reset", "ok", None, writes)

\* the replies to SCALE#1? and SCALE#2?
ScaleUnit == [C |-> "DEG C", F |-> "DEG F"]

\* _get_temperature_unit:
\*   if simulate: return 0
\*   scale = (ask('SCALE#1?') + ask('SCALE#2?')).split('DEG')
\*   if len(scale) == 3: ret = scale[1][-1]; if scale[1] != scale[2]: ret += scale[2][-1]
\*   else: raise UnexpectedResponseException()       (a name the module lacks)
\* failAt = n > 0: the n-th ask raises
get_temperature_unit(r1, r2, failAt) ==
    LET asks == <<"SCALE#1?", "SCALE#2?">>
        units == {u \in DOMAIN ScaleUnit : TRUE}
        unit(r) == CHOOSE u \in units : ScaleUnit[u] = r
        parsed == (\E u \in units : ScaleUnit[u] = r1) /\ (\E u \in units : ScaleUnit[u] = r2)
    IN
    IF simulate THEN Ends("get", "temperature_unit", "ok", Num(0), <<>>)
    ELSE IF failAt > 0
    THEN Ends("get", "temperature_unit", "IOError", None, SubSeq(asks, 1, failAt))
    ELSE IF ~parsed THEN Ends("get", "temperature_unit", "NameError", None, asks)
    ELSE Ends("get", "temperature_unit", "ok",
              Str(IF r1 = r2 THEN unit(r1) ELSE unit(r1) \o unit(r2)), asks)

-----------------------------------------------------------------------------
(* Load drivers: ivi/load.py Base, ivi/scpi/load.py Base (which overrides   *)
(* get/set channel and get/set mode) and ivi/bk/bk8542B.py (which overrides *)
(* get/set channel of the SCPI load).                                      *)

channel_count == 1

LoadMode == {"constant_current", "constant_voltage", "constant_resistance", "constant_power"}

\* LoadModeMapping, as the list of its items <<key, mnemonic>>
LoadModeMapping ==
    << <<"constant_current", "CURRENT">>, <<"constant_voltage", "VOLTAGE">>,
       <<"constant_resistance", "RESISTANCE">>, <<"constant_power", "POWER">>,
       <<"dynamic", "DYNAMIC">>, <<"led", "LED">>,
       <<"constant_impedance", "IMPEDANCE">> >>

LoadModeKeys == {LoadModeMapping[i][1] : i \in DOMAIN LoadModeMapping}
LoadModeToken(key) ==
    LoadModeMapping[CHOOSE i \in DOMAIN LoadModeMapping : LoadModeMapping[i][1] = key][2]

LoadDrivers == {"load", "scpi_load", "bk8542B"}
ScpiDrivers == {"scpi_load", "bk8542B"}

\* ivi.get_index(l, i): the 0-based position of selector i in the list of
\* names l; an integer is checked against [0, len(l)), a string must be a
\* member of l
get_index_ok(l, i) ==
    \/ i.k = "num" /\ i.n >= 0 /\ i.n < Len(l)
    \/ i.k = "str" /\ \E p \in DOMAIN l : l[p] = i.s
get_index(l, i) ==
    IF i.k = "num" THEN i.n ELSE (CHOOSE p \in DOMAIN l : l[p] = i.s) - 1

\* l[c] of a Python list: c must be an integer in [-len(l), len(l))
SubscriptOk(l, c) == c.k \in {"num", "bool"} /\ c.n >= -Len(l) /\ c.n < Len(l)
SubscriptError(c) == IF c.k \in {"num", "bool"} THEN "IndexError" ELSE "TypeError"
\* the position in the TLA+ sequence (from 1) that l[c] addresses
Pos(l, c) == IF c.n >= 0 THEN c.n + 1 ELSE Len(l) + c.n + 1

\* load.Base._get_channel: return self._channel
load_get_channel == [status |-> "ok", ret |-> channel, sent |-> <<>>]

\* scpi.load.Base._get_channel:
\*   if not simulate: value = ask(":CHAN?")...; if value in ChannelNameMapping: ...
\*   (ChannelNameMapping is not defined anywhere); return self._channel
scpi_get_channel(io) ==
    IF simulate THEN [status |-> "ok", ret |-> channel, sent |-> <<>>]
    ELSE IF io = "raise" THEN [status |-> "IOError", ret |-> None, sent |-> <<":CHAN?">>]
    ELSE [status |-> "NameError", ret |-> None, sent |-> <<":CHAN?">>]

\* bk8542B._get_channel: pass
bk_get_channel == [status |-> "ok", ret |-> None, sent |-> <<>>]

\* the getter the property 'channel' is bound to in the instantiated class
get_channel(io) ==
    CASE driver = "load" -> load_get_channel
      [] driver = "scpi_load" -> scpi_get_channel(io)
      [] driver = "bk8542B" -> bk_get_channel
      [] OTHER -> load_get_channel

\* load.Base._set_channel: self._channel = ivi.get_index(self._channel_name, index)
load_set_channel(index) ==
    IF ~get_index_ok(channel_name, index)
    THEN Ends("set", "channel", "SelectorRangeException", None, <<>>)
    ELSE /\ channel' = Num(get_index(channel_name, index))
         /\ Done("set", "channel", "ok", None, <<>>)
         /\ UNCHANGED <<ConfigVars, RsaVars, channel_name, channel_mode, FieldVars>>

\* scpi.load.Base._set_channel:
\*   value = str(value).upper(); if not simulate: write(":CHAN '{value}'")
\*   self._channel = value
scpi_set_channel(value, io) ==
    LET cmd == ":CHAN '{value}'" IN
    IF ~simulate /\ io = "raise"
    THEN Ends("set", "channel", "IOError", None, <<cmd>>)
    ELSE /\ channel' = Str(Upper(PyStr(value)))
         /\ Done("set", "channel", "ok", None, IF simulate THEN <<>> ELSE <<cmd>>)
         /\ UNCHANGED <<ConfigVars, RsaVars, channel_name, channel_mode, FieldVars>>

\* bk8542B._set_channel: pass
bk_set_channel(index) == Ends("set", "channel", "ok", None, <<>>)

\* the setter the property 'channel' is bound to in the instantiated class
set_channel(index, io) ==
    CASE driver = "load" -> load_set_channel(index)
      [] driver = "scpi_load" -> scpi_set_channel(index, io)
      [] driver = "bk8542B" -> bk_set_channel(index)

\* load.Base._get_name: return self._channel_name[self.channel]
get_name(io) ==
    LET c == get_channel(io) IN
    IF c.status # "ok" THEN Ends("get", "name", c.status, None, c.sent)
    ELSE IF ~SubscriptOk(channel_name, c.ret)
    THEN Ends("get", "name", SubscriptError(c.ret), None, c.sent)
    ELSE Ends("get", "name", "ok", Str(channel_name[Pos(channel_name, c.ret)]), c.sent)

\* load.Base._set_name: self._channel_name[self._channel] = str(value)
set_name(value) ==
    IF ~SubscriptOk(channel_name, channel)
    THEN Ends("set", "name", SubscriptError(channel), None, <<>>)
    ELSE /\ channel_name' = [channel_name EXCEPT ![Pos(channel_name, channel)] = PyStr(value)]
         /\ Done("set", "name", "ok", None, <<>>)
         /\ UNCHANGED <<ConfigVars, RsaVars, channel, channel_mode, FieldVars>>

\* load.Base._get_channel_name(index): return self._channel_name[self.channel]
get_channel_name(index, io) ==
    LET c == get_channel(io) IN
    IF c.status # "ok" THEN Ends("get", "channels[].name", c.status, None, c.sent)
    ELSE IF ~SubscriptOk(channel_name, c.ret)
    THEN Ends("get", "channels[].name", SubscriptError(c.ret), None, c.sent)
    ELSE Ends("get", "channels[].name", "ok",
              Str(channel_name[Pos(channel_name, c.ret)]), c.sent)

\* load.Base._set_channel_name(index, value):
\*   index = ivi.get_index(self._channel_name, index)
\*   self._channel_name[index] = str(value)
set_channel_name(index, value) ==
    IF ~get_index_ok(channel_name, index)
    THEN Ends("set", "channels[].name", "SelectorRangeException", None, <<>>)
    ELSE /\ channel_name' = [channel_name EXCEPT ![get_index(channel_name, index) + 1]
                                                   = PyStr(value)]
         /\ Done("set", "channels[].name", "ok", None, <<>>)
         /\ UNCHANGED <<ConfigVars, RsaVars, channel, channel_mode, FieldVars>>

\* load.Base._get_mode: return self._channel_mode[self._channel]
load_get_mode ==
    IF ~SubscriptOk(channel_mode, channel)
    THEN Ends("get", "mode", SubscriptError(channel), None, <<>>)
    ELSE Ends("get", "mode", "ok", Str(channel_mode[Pos(channel_mode, channel)]), <<>>)

\* load.Base._set_mode:
\*   if value in LoadMode: self._channel_mode[self._channel] = value
\*   else: raise ivi.ValueNotSupportedException()
load_set_mode(value) ==
    IF ~(value.k = "str" /\ value.s \in LoadMode)
    THEN Ends("set", "mode", "ValueNotSupportedException", None, <<>>)
    ELSE IF ~SubscriptOk(channel_mode, channel)
    THEN Ends("set", "mode", SubscriptError(channel), None, <<>>)
    ELSE /\ channel_mode' = [channel_mode EXCEPT ![Pos(channel_mode, channel)] = value.s]
         /\ Done("set", "mode", "ok", None, <<>>)
         /\ UNCHANGED <<ConfigVars, RsaVars, channel, channel_name, FieldVars>>

\* the replies of the instrument to :SOUR:MODE?
ModeReplies == {"CURRENT", "LED", "JUNK"}

\* scpi.load.Base._get_mode:
\*   if not simulate:
\*       value = ask(":SOUR:MODE?").upper().strip('"')
\*       value = [k for k,v in LoadModeMapping.items() if v==value][0]
\*       self._channel_mode[self._channel] = value
\*   return self._channel_mode[self._channel]
scpi_get_mode(reply, io) ==
    LET cmd == ":SOUR:MODE?"
        hits == {i \in DOMAIN LoadModeMapping : LoadModeMapping[i][2] = Upper(reply)}
    IN
    IF simulate
    THEN IF ~SubscriptOk(channel_mode, channel)
         THEN Ends("get", "mode", SubscriptError(channel), None, <<>>)
         ELSE Ends("get", "mode", "ok", Str(channel_mode[Pos(channel_mode, channel)]), <<>>)
    ELSE IF io = "raise" THEN Ends("get", "mode", "IOError", None, <<cmd>>)
    ELSE IF hits = {} THEN Ends("get", "mode", "IndexError", None, <<cmd>>)
    ELSE IF ~SubscriptOk(channel_mode, channel)
    THEN Ends("get", "mode", SubscriptError(channel), None, <<cmd>>)
    ELSE LET value == LoadModeMapping[CHOOSE i \in hits : \A j \in hits : i <= j][1] IN
         /\ channel_mode' = [channel_mode EXCEPT ![Pos(channel_mode, channel)] = value]
         /\ Done("get", "mode", "ok", Str(value), <<cmd>>)
         /\ UNCHANGED <<ConfigVars, RsaVars, channel, channel_name, FieldVars>>

\* scpi.load.Base._set_mode:
\*   if value in LoadModeMapping:
\*       if not simulate: write(f':SOUR:MODE {LoadModeMapping[value]}')
\*   else: raise ivi.ValueNotSupportedException()
\*   self._channel_mode[self._channel] = value
scpi_set_mode(value, io) ==
    IF ~(value.k = "str" /\ value.s \in LoadModeKeys)
    THEN Ends("set", "mode", "ValueNotSupportedException", None, <<>>)
    ELSE LET cmd == ":SOUR:MODE " \o LoadModeToken(value.s)
             sent == IF simulate THEN <<>> ELSE <<cmd>>
         IN
         IF ~simulate /\ io = "raise" THEN Ends("set", "mode", "IOError", None, sent)
         ELSE IF ~SubscriptOk(channel_mode, channel)
         THEN Ends("set", "mode", SubscriptError(channel), None, sent)
         ELSE /\ channel_mode' = [channel_mode EXCEPT ![Pos(channel_mode, channel)] = value.s]
              /\ Done("set", "mode", "ok", None, sent)
              /\ UNCHANGED <<ConfigVars, RsaVars, channel, channel_name, FieldVars>>

\* the getter and the setter the property 'mode' is bound to in the
\* instantiated class
get_mode(reply, io) == IF driver = "load" THEN load_get_mode ELSE scpi_get_mode(reply, io)

set_mode(value, io) == IF driver = "load" THEN load_set_mode(value) ELSE scpi_set_mode(value, io)

-----------------------------------------------------------------------------
(* load.Base: the other per-channel attributes and the trigger attributes   *)

\* the per-channel lists that __init__ creates and _init_channels fills
ChannelFields == {"input_enabled", "input_shorted", "voltage_range",
                  "voltage_range_auto", "voltage_on", "voltage_off",
                  "voltage_protection"}

\* the attributes that only the setters of the trigger properties create
TriggerFields == {"delay", "delay_auto", "source"}

\* the list each getter reads and each setter writes, and the conversion the
\* setter applies: self._channel_<GetList>[self._channel]
GetList ==
    [input_enabled |-> "input_enabled", input_shorted |-> "input_shorted",
     voltage_range |-> "voltage_range", voltage_range_auto |-> "voltage_auto",
     voltage_on |-> "voltage_on", voltage_off |-> "voltage_off",
     voltage_protection |-> "voltage_off"]
SetList ==
    [input_enabled |-> "input_enabled", input_shorted |-> "input_shorted",
     voltage_range |-> "voltage_range", voltage_range_auto |-> "voltage_auto",
     voltage_on |-> "voltage_on", voltage_off |-> "voltage_off",
     voltage_protection |-> "voltage_protection"]
SetCast ==
    [input_enabled |-> "bool", input_shorted |-> "bool", voltage_range |-> "float",
     voltage_range_auto |-> "bool", voltage_on |-> "float", voltage_off |-> "float",
     voltage_protection |-> "float", delay |-> "float", delay_auto |-> "bool",
     source |-> "str"]

ChannelAttrs == DOMAIN GetList

\* bool(value), float(value), str(value)
Cast(cast, value) ==
    CASE cast = "bool" -> Bool(PyBool(value))
      [] cast = "float" -> Num(FloatOf(value))
      [] cast = "str" -> Str(PyStr(value))

\* what a get of the attribute returns in the present state:
\*   return self._channel_<list>[self._channel]
load_field_value(attr) ==
    IF GetList[attr] \notin ChannelFields
    THEN [status |-> "AttributeError", ret |-> None]
    ELSE IF ~SubscriptOk(channel_field[GetList[attr]], channel)
    THEN [status |-> SubscriptError(channel), ret |-> None]
    ELSE [status |-> "ok",
          ret |-> channel_field[GetList[attr]][Pos(channel_field[GetList[attr]], channel)]]

load_get_field(attr) ==
    Ends("get", attr, load_field_value(attr).status, load_field_value(attr).ret, <<>>)

\* self._channel_<list>[self._channel] = cast(value)
load_set_field(attr, value) ==
    IF SetCast[attr] = "float" /\ ~IsFloatable(value)
    THEN Ends("set", attr, FloatError(value), None, <<>>)
    ELSE IF SetList[attr] \notin ChannelFields
    THEN Ends("set", attr, "AttributeError", None, <<>>)
    ELSE IF ~SubscriptOk(channel_field[SetList[attr]], channel)
    THEN Ends("set", attr, SubscriptError(channel), None, <<>>)
    ELSE /\ channel_field' =
              [channel_field EXCEPT ![SetList[attr]][Pos(channel_field[SetList[attr]], channel)] =
                 Cast(SetCast[attr], value)]
         /\ Done("set", attr, "ok", None, <<>>)
         /\ UNCHANGED <<ConfigVars, RsaVars, channel, channel_name, channel_mode, trigger>>

\* what a get of trigger.<f> returns in the present state: return self._trigger_<f>
trigger_value(f) ==
    IF trigger[f] = Unset THEN [status |-> "AttributeError", ret |-> None]
    ELSE [status |-> "ok", ret |-> trigger[f]]

get_trigger(f) ==
    Ends("get", "trigger_" \o f, trigger_value(f).status, trigger_value(f).ret, <<>>)

\* value = cast(value); self._trigger_<f> = value
set_trigger(f, value) ==
    IF SetCast[f] = "float" /\ ~IsFloatable(value)
    THEN Ends("set", "trigger_" \o f, FloatError(value), None, <<>>)
    ELSE /\ trigger' = [trigger EXCEPT ![f] = Cast(SetCast[f], value)]
         /\ Done("set", "trigger_" \o f, "ok", None, <<>>)
         /\ UNCHANGED <<ConfigVars, RsaVars, channel, channel_name, channel_mode,
                        channel_field>>

\* a send_software_trigger that triggers whatever the trigger source is
send_software_trigger_always ==
    Ends("call", "send_software_trigger", "ok", None, <<"*TRG">>)

\* SoftwareTrigger._send_software_trigger: pass
send_software_trigger == Ends("call", "send_software_trigger", "ok", None, <<>>)

-----------------------------------------------------------------------------
(* load.Base: the measurement methods.  The driver keeps no record of an    *)
(* acquisition: initiate and abort have the body pass, fetch and read       *)
(* return the constant 0.0.                                                  *)

\* def _measurement_initiate(self): pass
measurement_initiate == Ends("call", "measurement_initiate", "ok", None, <<>>)

\* def _measurement_abort(self): pass
measurement_abort == Ends("call", "measurement_abort", "ok", None, <<>>)

\* def _measurement_fetch(self, max_time): return 0.0
measurement_fetch(max_time) == Ends("call", "measurement_fetch", "ok", Num(0), <<>>)

\* def _measurement_read(self, max_time): return 0.0
measurement_read(max_time) == Ends("call", "measurement_read", "ok", Num(0), <<>>)

-----------------------------------------------------------------------------
(* Numeric attributes of the SCPI load.  The setters of voltage.on,         *)
(* voltage.off, current.constant, current.range, current.slew,              *)
(* current.slew_rise, current.slew_fall, current.protection,                *)
(* power.constant, power.protection and resistance.constant all have the    *)
(* body of _set_scalar with their own command; the getters, but the one of  *)
(* resistance.constant, have the body float(ask(cmd?)).                     *)

\* the command of each numeric attribute
ScalarCommand ==
    [voltage_on |-> ":VOLT:ON", voltage_off |-> ":VOLT:OFF",
     current_constant |-> ":CURR", current_range |-> ":CURR:RANG",
     current_slew |-> ":CURR:SLEW", current_slew_rise |-> ":CURR:SLEW:RISE",
     current_slew_fall |-> ":CURR:SLEW:FALL", current_protection |-> ":CURR:PROT",
     power_constant |-> ":POW", power_protection |-> ":POW:PROT",
     resistance_constant |-> ":RES"]

ScalarNames == DOMAIN ScalarCommand
\* _get_resistance_constant has a body of its own
ScalarGetNames == ScalarNames \ {"resistance_constant"}

\* the setter body with a string other than MIN or MAX refused
set_scalar_strict(name, value, io) ==
    LET cmd == ScalarCommand[name] IN
    IF simulate THEN Ends("set", name, "ok", None, <<>>)
    ELSE IF value.k = "str"
    THEN LET v == Upper(value.s) IN
         IF v \in {"MIN", "MAX"}
         THEN Ends("set", name, IF io = "ok" THEN "ok" ELSE "IOError", None,
                   <<cmd \o " " \o v>>)
         ELSE Ends("set", name, "ValueNotSupportedException", None, <<>>)
    ELSE IF ~IsFloatable(value)
    THEN Ends("set", name, FloatError(value), None, <<>>)
    ELSE Ends("set", name, IF io = "ok" THEN "ok" ELSE "IOError", None,
              <<cmd \o " " \o FmtStr(FloatOf(value))>>)

\* the setter body with value.upper() left out
set_scalar_cased(name, value, io) ==
    LET cmd == ScalarCommand[name] IN
    IF simulate THEN Ends("set", name, "ok", None, <<>>)
    ELSE IF value.k = "str"
    THEN IF value.s \in {"MIN", "MAX"}
         THEN Ends("set", name, IF io = "ok" THEN "ok" ELSE "IOError", None,
                   <<cmd \o " " \o value.s>>)
         ELSE Ends("set", name, "ok", None, <<>>)
    ELSE IF ~IsFloatable(value)
    THEN Ends("set", name, FloatError(value), None, <<>>)
    ELSE Ends("set", name, IF io = "ok" THEN "ok" ELSE "IOError", None,
              <<cmd \o " " \o FmtStr(FloatOf(value))>>)

\* _set_voltage_on, ..., _set_resistance_constant:
\*   if not simulate:
\*       if isinstance(value, str):
\*           value = value.upper()
\*           if value == 'MIN' or value == 'MAX': write(f"{cmd} {value}")
\*       else: write(f"{cmd} {float(value)}")
set_scalar(name, value, io) ==
    LET cmd == ScalarCommand[name] IN
    IF simulate THEN Ends("set", name, "ok", None, <<>>)
    ELSE IF value.k = "str"
    THEN LET v == Upper(value.s) IN
         IF v \in {"MIN", "MAX"}
         THEN Ends("set", name, IF io = "ok" THEN "ok" ELSE "IOError", None,
                   <<cmd \o " " \o v>>)
         ELSE Ends("set", name, "ok", None, <<>>)
    ELSE IF ~IsFloatable(value)
    THEN Ends("set", name, FloatError(value), None, <<>>)
    ELSE Ends("set", name, IF io = "ok" THEN "ok" ELSE "IOError", None,
              <<cmd \o " " \o FmtStr(FloatOf(value))>>)

\* _get_voltage_on, ..., _get_power_protection:
\*   if not simulate: return float(ask(f"{cmd}?"))
get_scalar(name, reply, io) ==
    LET cmd == ScalarCommand[name] \o "?" IN
    IF simulate THEN Ends("get", name, "ok", None, <<>>)
    ELSE IF io = "raise" THEN Ends("get", name, "IOError", None, <<cmd>>)
    ELSE IF ~IsNumStr(reply) THEN Ends("get", name, "ValueError", None, <<cmd>>)
    ELSE Ends("get", name, "ok", Num(ParseNum(reply)), <<cmd>>)

-----------------------------------------------------------------------------
(* The SCPI load: input.enabled, the over-range reply, and the accessors    *)
(* each per-channel property is bound to                                    *)

\* float('inf'), which _get_resistance_constant returns for a reply ending in INF0
Inf == [k |-> "num", n |-> 0, s |-> "inf"]

\* def _measurement_is_over_range(self, value): return False
measurement_is_over_range(value) ==
    Ends("call", "measurement_is_over_range", "ok", Bool(FALSE), <<>>)

\* def _measurement_is_under_range(self, value): return False
measurement_is_under_range(value) ==
    Ends("call", "measurement_is_under_range", "ok", Bool(FALSE), <<>>)

\* return self._measurement_is_over_range(value) or self._measurement_is_under_range(value)
measurement_is_out_of_range(value) ==
    Ends("call", "measurement_is_out_of_range", "ok", Bool(FALSE \/ FALSE), <<>>)

\* scpi.load.Base._get_input_enabled:
\*   if not simulate:
\*       value = ask(":INP?").upper().strip('"')
\*       self._channel_input_enabled[self._channel] = bool(int(value))
\*   return self._channel_input_enabled[self._channel]
scpi_get_input_enabled(reply, io) ==
    LET l == channel_field["input_enabled"] IN
    IF simulate THEN load_get_field("input_enabled")
    ELSE IF io = "raise" THEN Ends("get", "input_enabled", "IOError", None, <<":INP?">>)
    ELSE IF ~IsIntStr(Upper(reply))
    THEN Ends("get", "input_enabled", "ValueError", None, <<":INP?">>)
    ELSE IF ~SubscriptOk(l, channel)
    THEN Ends("get", "input_enabled", SubscriptError(channel), None, <<":INP?">>)
    ELSE /\ channel_field' = [channel_field EXCEPT !["input_enabled"][Pos(l, channel)] =
                                Bool(ParseNum(Upper(reply)) # 0)]
         /\ Done("get", "input_enabled", "ok", Bool(ParseNum(Upper(reply)) # 0), <<":INP?">>)
         /\ UNCHANGED <<ConfigVars, RsaVars, channel, channel_name, channel_mode, trigger>>

\* scpi.load.Base._set_input_enabled:
\*   if not simulate:
\*       self._channel_input_enabled[self._channel] = self._write(f":INP {1 if value else 0}")
\*   return self._channel_input_enabled[self._channel]
\* (self._write returns nothing, so the list element becomes None)
scpi_set_input_enabled(value, io) ==
    LET l == channel_field["input_enabled"]
        cmd == ":INP " \o (IF PyBool(value) THEN "1" ELSE "0")
    IN
    IF simulate
    THEN Ends("set", "input_enabled", load_field_value("input_enabled").status, None, <<>>)
    ELSE IF io = "raise" THEN Ends("set", "input_enabled", "IOError", None, <<cmd>>)
    ELSE IF ~SubscriptOk(l, channel)
    THEN Ends("set", "input_enabled", SubscriptError(channel), None, <<cmd>>)
    ELSE /\ channel_field' = [channel_field EXCEPT !["input_enabled"][Pos(l, channel)] = None]
         /\ Done("set", "input_enabled", "ok", None, <<cmd>>)
         /\ UNCHANGED <<ConfigVars, RsaVars, channel, channel_name, channel_mode, trigger>>

\* the attributes whose accessors scpi.load.Base does not override
Inherited == {"voltage_range_auto", "voltage_protection"}
\* the attributes whose accessors in scpi.load.Base call the module-level
\* names _get_bool, _set_bool, _get_scalar, _set_scalar, which do not exist
BareCalls == {"input_shorted", "voltage_range"}

\* the getter and the setter each per-channel property is bound to in the
\* instantiated class
get_channel_attr(attr, reply, io) ==
    IF driver = "load" \/ attr \in Inherited THEN load_get_field(attr)
    ELSE IF attr = "input_enabled" THEN scpi_get_input_enabled(reply, io)
    ELSE IF attr \in BareCalls THEN Ends("get", attr, "NameError", None, <<>>)
    ELSE get_scalar(attr, reply, io)

set_channel_attr(attr, value, io) ==
    IF driver = "load" \/ attr \in Inherited THEN load_set_field(attr, value)
    ELSE IF attr = "input_enabled" THEN scpi_set_input_enabled(value, io)
    ELSE IF attr \in BareCalls THEN Ends("set", attr, "NameError", None, <<>>)
    ELSE set_scalar(attr, value, io)

-----------------------------------------------------------------------------
(* The attribute framework of ivi.py, as far as the drivers rely on it *)

\* a set of a property that was registered without a setter
property_set_readonly(path) == Ends("set", path, "ReadOnlyAttribute", None, <<>>)

\* an indexed property resolves its selector through the collection before
\* the driver's getter or setter runs
index_error(op, path) == Ends(op, path, "SelectorRangeException", None, <<>>)

\* channels[sel].name: the selector is resolved through the collection of
\* channel names, then the driver's getter or setter runs with the index
channels_name_get(sel, io) ==
    IF get_index_ok(channel_name, sel)
    THEN get_channel_name(get_index(channel_name, sel), io)
    ELSE index_error("get", "channels[].name")

channels_name_set(sel, value) ==
    IF get_index_ok(channel_name, sel)
    THEN set_channel_name(Num(get_index(channel_name, sel)), value)
    ELSE index_error("set", "channels[].name")

\* the properties registered by tektronixBaseRSA.__init__ that the model
\* covers: path -> setter ("None": registered with a getter only)
rsa_setter(path) ==
    CASE path = "frequency_center" -> "set_frequency_center"
      [] path = "frequency_span" -> "set_frequency_span"
      [] path = "level_amplitude_units" -> "set_level_amplitude_units"
      [] path = "rf_power_mode" -> "set_rf_power_mode"
      [] path = "oscillator_source" -> "set_oscillator_source"
      [] path = "oscillator_locked" -> "None"
      [] path = "spurious_config" -> "set_spurious_config"
      [] path = "spurious_ranges_config" -> "set_spurious_ranges_config"
      [] path = "spurious_traces_config" -> "set_spurious_traces_config"
      [] path = "spurious_carrier_config" -> "set_spurious_carrier_config"
      [] path = "display_spurious_config" -> "set_display_spurious_config"

RsaPaths == {"frequency_center", "frequency_span", "level_amplitude_units",
             "rf_power_mode", "oscillator_source", "oscillator_locked",
             "spurious_config", "spurious_ranges_config", "spurious_traces_config",
             "spurious_carrier_config", "display_spurious_config"}

trace_count == 4
\* self._trace_name
trace_name == [i \in 1..trace_count |-> "Trace " \o ToString(i)] \o <<"Math">>
\* self._range_name: the letters of 'ABCDEFGHIJKLMNOPQRST'
range_name == <<"A", "B", "C", "D", "E", "F", "G", "H", "I", "J",
                "K", "L", "M", "N", "O", "P", "Q", "R", "S", "T">>

-----------------------------------------------------------------------------
(* initialize(id_query, reset).  An identification string is the sequence   *)
(* of its parts, so that a prefix of it can be taken.                       *)

\* self._instrument_id as set by the constructor of the driver class
instrument_id ==
    CASE driver = "sunEC1X" -> <<"SUN", " ">>
      [] driver = "bk8542B" -> <<"B&K Precision", ",", " ", "8542B">>
      [] OTHER -> <<>>

\* id[:n]
Prefix(id, n) == SubSeq(id, 1, IF Len(id) < n THEN Len(id) ELSE n)

\* raise Exception("Instrument ID mismatch, expecting %s, got %s", ...)
InstrumentIdMismatch == "InstrumentIdMismatch"

\* the commands whose write is the reset of an instrument
ResetCommands == {"IP", "STOPE9", "*RST"}

\* tektronixBaseRSA._initialize with _get_identity_instrument_model and
\* _load_id_string.  idn: the fields of the reply to *IDN?, mod: the reply to
\* SYST:SVPC:INST:MOD?; failAt = n > 0: the n-th transport call raises
rsa_initialize(id_query, reset, idn, mod, failAt) ==
    LET tag == "identity_instrument_model"
        asks == id_query /\ ~simulate /\ ~get_cache_valid(cache_valid, tag)
        idq == IF asks THEN <<"*IDN?", "SYST:SVPC:INST:MOD?", "SYST:SVPC:INST:SER?">>
               ELSE <<>>
        id1 == IF asks THEN <<idn[2], "/", mod>> ELSE identity
        cv1 == IF asks THEN set_cache_valid(cache_valid, TRUE, tag) ELSE cache_valid
        ends(status, sent, id, cv) ==
            /\ identity' = id
            /\ cache_valid' = cv
            /\ Done("call", "initialize", status, None, sent)
            /\ UNCHANGED <<driver, simulate, LoadVars, fld>>
    IN
    IF asks /\ failAt = 1 THEN ends("IOError", <<"*IDN?">>, identity, cache_valid)
    ELSE IF asks /\ Len(idn) # 4 THEN ends("ValueError", <<"*IDN?">>, identity, cache_valid)
    ELSE IF asks /\ failAt = 2 THEN ends("IOError", SubSeq(idq, 1, 2), <<idn[2]>>, cache_valid)
    ELSE IF asks /\ failAt = 3 THEN ends("IOError", idq, id1, cache_valid)
    ELSE IF id_query /\ ~simulate /\ Prefix(id1, Len(instrument_id)) # instrument_id
    THEN ends(InstrumentIdMismatch, idq, id1, cv1)
    ELSE IF reset /\ ~simulate
    THEN IF failAt = Len(idq) + 1
         THEN ends("IOError", idq \o <<"IP">>, id1, cv1)
         ELSE ends("ok", idq \o <<"IP">>, id1, invalidate_all_attributes(cv1))
    ELSE ends("ok", idq, id1, cv1)

\* ''.join(parts)
RECURSIVE Concat(_)
Concat(parts) == IF parts = <<>> THEN "" ELSE Head(parts) \o Concat(Tail(parts))

\* tektronixBaseRSA._get_identity_instrument_model with _load_id_string:
\*   if self._get_cache_valid(): return self._identity_instrument_model
\*   self._load_id_string(); return self._identity_instrument_model
\* idn, mod, failAt as for initialize
get_identity_instrument_model(idn, mod, failAt) ==
    LET tag == "identity_instrument_model"
        idq == <<"*IDN?", "SYST:SVPC:INST:MOD?", "SYST:SVPC:INST:SER?">>
        ends(status, ret, sent, id, cv) ==
            /\ identity' = id
            /\ cache_valid' = cv
            /\ Done("get", tag, status, ret, sent)
            /\ UNCHANGED <<driver, simulate, LoadVars, fld>>
    IN
    IF get_cache_valid(cache_valid, tag)
    THEN ends("ok", Str(Concat(identity)), <<>>, identity, cache_valid)
    ELSE IF simulate
    THEN ends("ok", Str("Not available while simulating"), <<>>,
              <<"Not available while simulating">>, cache_valid)
    ELSE IF failAt = 1 THEN ends("IOError", None, <<"*IDN?">>, identity, cache_valid)
    ELSE IF Len(idn) # 4 THEN ends("ValueError", None, <<"*IDN?">>, identity, cache_valid)
    ELSE IF failAt = 2 THEN ends("IOError", None, SubSeq(idq, 1, 2), <<idn[2]>>, cache_valid)
    ELSE IF failAt = 3 THEN ends("IOError", None, idq, <<idn[2], "/", mod>>, cache_valid)
    ELSE ends("ok", Str(Concat(<<idn[2], "/", mod>>)), idq, <<idn[2], "/", mod>>,
              set_cache_valid(cache_valid, TRUE, tag))

\* sunEC1X._initialize without the comparison of the reply with the id string
sun_initialize_unchecked(id_query, reset, id, failAt) ==
    LET idq == IF ~simulate /\ id_query THEN <<"ON", "VER?">> ELSE <<>>
        matches == TRUE
        \* id.split(' '): id[1] and id[2].split('Ver')[1]
        words == SelectSeq(id, LAMBDA w : w # " ")
        ends(status, sent, model) ==
            /\ identity' = model
            /\ Done("call", "initialize", status, None, sent)
            /\ UNCHANGED <<driver, simulate, LoadVars, RsaVars>>
    IN
    IF simulate
    THEN ends(IF reset THEN "AttributeError" ELSE "ok", <<>>,
              <<"Not available while simulating">>)
    ELSE IF idq # <<>> /\ failAt \in 1..2 THEN ends("IOError", SubSeq(idq, 1, failAt), identity)
    ELSE IF idq # <<>> /\ ~matches THEN ends(InstrumentIdMismatch, idq, identity)
    ELSE IF idq # <<>> /\ Len(words) < 3
    THEN ends("IndexError", idq, IF Len(words) >= 2 THEN <<words[2]>> ELSE <<>>)
    ELSE LET sent == IF idq # <<>> THEN idq \o <<"TIME=">> ELSE <<>>
             model == IF idq # <<>> THEN <<words[2]>> ELSE identity
         IN IF idq # <<>> /\ failAt = 3 THEN ends("IOError", sent, model)
            ELSE ends(IF reset THEN "AttributeError" ELSE "ok", sent, model)

\* sunEC1X._initialize.  id: the reply to VER?; failAt = n > 0: the n-th
\* transport call raises.  With reset the driver calls
\* self.utility_reset(), a name the driver does not have (the method is
\* _utility_reset, registered as utility.reset)
sun_initialize(id_query, reset, id, failAt) ==
    LET idq == IF ~simulate /\ id_query THEN <<"ON", "VER?">> ELSE <<>>
        matches == Prefix(id, Len(instrument_id)) = instrument_id
        \* id.split(' '): id[1] and id[2].split('Ver')[1]
        words == SelectSeq(id, LAMBDA w : w # " ")
        ends(status, sent, model) ==
            /\ identity' = model
            /\ Done("call", "initialize", status, None, sent)
            /\ UNCHANGED <<driver, simulate, LoadVars, RsaVars>>
    IN
    IF simulate
    THEN ends(IF reset THEN "AttributeError" ELSE "ok", <<>>,
              <<"Not available while simulating">>)
    ELSE IF idq # <<>> /\ failAt \in 1..2 THEN ends("IOError", SubSeq(idq, 1, failAt), identity)
    ELSE IF idq # <<>> /\ ~matches THEN ends(InstrumentIdMismatch, idq, identity)
    ELSE IF idq # <<>> /\ Len(words) < 3
    THEN ends("IndexError", idq, IF Len(words) >= 2 THEN <<words[2]>> ELSE <<>>)
    ELSE LET sent == IF idq # <<>> THEN idq \o <<"TIME=">> ELSE <<>>
             model == IF idq # <<>> THEN <<words[2]>> ELSE identity
         IN IF idq # <<>> /\ failAt = 3 THEN ends("IOError", sent, model)
            ELSE ends(IF reset THEN "AttributeError" ELSE "ok", sent, model)

\* scpi.load.Base._initialize, and bk8542B._initialize which runs it and then
\* drains the input buffer.  model: identity.instrument_model as read from the
\* reply to *IDN?; failAt = n > 0: the n-th transport call raises.
\* utility.reset() is scpi.common.Reset: *RST, then invalidate_all_attributes
scpi_initialize(id_query, reset, model, failAt) ==
    LET tag == "identity_instrument_model"
        pre == IF simulate THEN <<>> ELSE <<"*CLS", "SYST:REM">>
        asks == id_query /\ ~simulate /\ ~get_cache_valid(cache_valid, tag)
        idq == IF asks THEN <<"*IDN?">> ELSE <<>>
        id1 == IF asks THEN model ELSE identity
        cv1 == IF asks THEN set_cache_valid(cache_valid, TRUE, tag) ELSE cache_valid
        rst == IF simulate THEN <<>> ELSE <<"*RST">>
        ends(status, sent, id, cv) ==
            /\ identity' = id
            /\ cache_valid' = cv
            /\ Done("call", "initialize", status, None, sent)
            /\ UNCHANGED <<driver, simulate, LoadVars, fld>>
    IN
    IF failAt \in 1..Len(pre \o idq)
    THEN ends("IOError", SubSeq(pre \o idq, 1, failAt), identity, cache_valid)
    ELSE IF id_query /\ ~simulate /\ Prefix(id1, Len(instrument_id)) # instrument_id
    THEN ends(InstrumentIdMismatch, pre \o idq, id1, cv1)
    ELSE IF reset
    THEN IF rst # <<>> /\ failAt = Len(pre \o idq) + 1
         THEN ends("IOError", pre \o idq \o rst, id1, cv1)
         ELSE ends("ok", pre \o idq \o rst, id1, invalidate_all_attributes(cv1))
    ELSE ends("ok", pre \o idq, id1, cv1)

-----------------------------------------------------------------------------
(* Translation between values and command tokens, as the setters and the    *)
(* getters do it                                                             *)

\* an ALC source table in which both keys have the mnemonic int
ALCSourceMapping_int == << <<"internal", "int">>, <<"external", "int">> >>

\* ALCSourceMapping and DetectorTypeMapping, as the lists of their items
ALCSourceMapping == << <<"internal", "int">>, <<"external", "ext">> >>
DetectorTypeMapping ==
    << <<"maximum_peak", "pos">>, <<"minimum_peak", "neg">>, <<"sample", "smp">> >>

\* value in mapping, mapping[value]
MapKeys(mapping) == {mapping[i][1] : i \in DOMAIN mapping}
MapToken(mapping, key) == mapping[CHOOSE i \in DOMAIN mapping : mapping[i][1] = key][2]
\* [k for k,v in mapping.items() if v == token]: the positions of the hits,
\* and element [0] of the list
MapHits(mapping, token) == {i \in DOMAIN mapping : mapping[i][2] = token}
MapKey(mapping, token) ==
    mapping[CHOOSE i \in MapHits(mapping, token) : \A j \in MapHits(mapping, token) : i <= j][1]

EnumMapping(kind) ==
    CASE kind = "mode" -> LoadModeMapping
      [] kind = "alc_source" -> ALCSourceMapping
      [] kind = "acquisition_detector_type" -> DetectorTypeMapping

\* the case the getter folds the reply to before the lookup
EnumFold(kind, token) == IF kind = "mode" THEN Upper(token) ELSE Lower(token)

\* the token a setter writes for a value: onoff(value) in the analyzer,
\* 1 if value else 0 and the body of _set_scalar in the load, mapping[value]
\* for an enumeration
Encode(kind, v) ==
    CASE kind = "onoff" -> [status |-> "ok", tok |-> onoff(Bool(PyBool(v))).s]
      [] kind = "bool" -> [status |-> "ok", tok |-> IF PyBool(v) THEN "1" ELSE "0"]
      [] kind = "scalar" ->
           IF v.k = "str"
           THEN [status |-> "ok",
                 tok |-> IF Upper(v.s) \in {"MIN", "MAX"} THEN Upper(v.s) ELSE ""]
           ELSE IF ~IsFloatable(v) THEN [status |-> FloatError(v), tok |-> ""]
           ELSE [status |-> "ok", tok |-> FmtStr(FloatOf(v))]
      [] OTHER ->
           IF v.k = "str" /\ v.s \in MapKeys(EnumMapping(kind))
           THEN [status |-> "ok", tok |-> MapToken(EnumMapping(kind), v.s)]
           ELSE [status |-> "ValueNotSupportedException", tok |-> ""]

\* the value a getter makes of a reply: onoff(reply), bool(int(reply)),
\* float(reply), and the first key of the mapping whose mnemonic is the reply
Decode(kind, token) ==
    CASE kind = "onoff" -> [status |-> "ok", ret |-> onoff(Str(token))]
      [] kind = "bool" ->
           IF IsIntStr(Upper(token))
           THEN [status |-> "ok", ret |-> Bool(ParseNum(token) # 0)]
           ELSE [status |-> "ValueError", ret |-> None]
      [] kind = "scalar" ->
           IF IsNumStr(token) THEN [status |-> "ok", ret |-> Num(ParseNum(token))]
           ELSE [status |-> "ValueError", ret |-> None]
      [] OTHER ->
           IF MapHits(EnumMapping(kind), EnumFold(kind, token)) = {}
           THEN [status |-> "IndexError", ret |-> None]
           ELSE [status |-> "ok", ret |-> Str(MapKey(EnumMapping(kind), EnumFold(kind, token)))]

-----------------------------------------------------------------------------
(* tektronixBaseRSA: enumerated and two-valued attributes *)

\* _get_alc_source, _get_acquisition_detector_type:
\*   if not simulate and not cache valid:
\*       value = ask(cmd).lower()
\*       self._<tag> = [k for k,v in Mapping.items() if v==value][0]; set valid
\*   return self._<tag>
CachedGetEnum(tag, cmd, reply, io) ==
    IF ~simulate /\ ~get_cache_valid(cache_valid, tag)
    THEN IF io = "raise"
         THEN Ends("get", tag, "IOError", None, <<cmd>>)
         ELSE IF Decode(tag, reply).status # "ok"
         THEN Ends("get", tag, Decode(tag, reply).status, None, <<cmd>>)
         ELSE /\ fld' = [fld EXCEPT ![tag] = Decode(tag, reply).ret]
              /\ cache_valid' = set_cache_valid(cache_valid, TRUE, tag)
              /\ Done("get", tag, "ok", fld'[tag], <<cmd>>)
              /\ UNCHANGED <<ConfigVars, LoadVars>>
    ELSE Ends("get", tag, "ok", fld[tag], <<>>)

get_alc_source(reply, io) == CachedGetEnum("alc_source", "srcalc?", reply, io)

get_acquisition_detector_type(reply, io) ==
    CachedGetEnum("acquisition_detector_type", "det?", reply, io)

\* if value not in ALCSourceMapping: raise ivi.ValueNotSupportedException()
\* if not simulate: write("srcalc %s" % ALCSourceMapping[value]); set valid
\* self._alc_source = value
set_alc_source(value, io) ==
    IF Encode("alc_source", value).status # "ok"
    THEN Ends("set", "alc_source", Encode("alc_source", value).status, None, <<>>)
    ELSE LET cmd == "srcalc " \o Encode("alc_source", value).tok IN
         IF simulate
         THEN /\ fld' = [fld EXCEPT !["alc_source"] = value]
              /\ Done("set", "alc_source", "ok", None, <<>>)
              /\ UNCHANGED <<ConfigVars, LoadVars, cache_valid>>
         ELSE IF io = "raise"
         THEN Ends("set", "alc_source", "IOError", None, <<cmd>>)
         ELSE /\ fld' = [fld EXCEPT !["alc_source"] = value]
              /\ cache_valid' = set_cache_valid(cache_valid, TRUE, "alc_source")
              /\ Done("set", "alc_source", "ok", None, <<cmd>>)
              /\ UNCHANGED <<ConfigVars, LoadVars>>

\* if value not in DetectorTypeMapping: raise ivi.ValueNotSupportedException()
\* if not simulate: write(":det %s" % DetectorTypeMapping[value])
\* self._acquisition_detector_type = value; set valid
set_acquisition_detector_type(value, io) ==
    LET tag == "acquisition_detector_type" IN
    IF Encode(tag, value).status # "ok"
    THEN Ends("set", tag, Encode(tag, value).status, None, <<>>)
    ELSE LET cmd == ":det " \o Encode(tag, value).tok IN
         IF ~simulate /\ io = "raise"
         THEN Ends("set", tag, "IOError", None, <<cmd>>)
         ELSE /\ fld' = [fld EXCEPT ![tag] = value]
              /\ cache_valid' = set_cache_valid(cache_valid, TRUE, tag)
              /\ Done("set", tag, "ok", None, IF simulate THEN <<>> ELSE <<cmd>>)
              /\ UNCHANGED <<ConfigVars, LoadVars>>

\* if not simulate and not cache valid:
\*     self._acquisition_vertical_scale =
\*         'logarithmic' if (ask("lg?") != '0') else 'linear'; set valid
\* return self._acquisition_vertical_scale
get_acquisition_vertical_scale(reply, io) ==
    LET tag == "acquisition_vertical_scale" IN
    IF ~simulate /\ ~get_cache_valid(cache_valid, tag)
    THEN IF io = "raise"
         THEN Ends("get", tag, "IOError", None, <<"lg?">>)
         ELSE /\ fld' = [fld EXCEPT ![tag] =
                           Str(IF reply # "0" THEN "logarithmic" ELSE "linear")]
              /\ cache_valid' = set_cache_valid(cache_valid, TRUE, tag)
              /\ Done("get", tag, "ok", fld'[tag], <<"lg?">>)
              /\ UNCHANGED <<ConfigVars, LoadVars>>
    ELSE Ends("get", tag, "ok", fld[tag], <<>>)

\* return onoff(self._ask('INP:ATT:AUTO?'))
get_level_attenuation_auto(reply, io) ==
    IF io = "raise"
    THEN Ends("get", "level_attenuation_auto", "IOError", None, <<"INP:ATT:AUTO?">>)
    ELSE Ends("get", "level_attenuation_auto", "ok", onoff(Str(reply)), <<"INP:ATT:AUTO?">>)

-----------------------------------------------------------------------------
(* What the client passes *)

Drivers == {"load", "scpi_load", "bk8542B", "sunEC1X", "tektronixBaseRSA"}

NumInputs == {Num(n) : n \in Vals} \cup {Str("abc")}
BoolInputs == {Bool(TRUE), Bool(FALSE)}
PowerModeInputs == {Str("fixed"), Str("sweep"), Str("bogus")}
OscillatorInputs == {Str("INT"), Str("int"), Str("bogus")}
UnitInputs == {Str("DBM"), Str("dbm"), Str("bogus")}
MemoryInputs == {Num(-1), Num(2), Num(memory_size)}
LoadModeInputs == {Str(k) : k \in LoadModeKeys} \cup {Str("bogus")}
ChannelSelectors == {Num(-1), Num(0), Num(channel_count), Str("CH1"), Str("ch1"),
                     Str("A"), Str("X")}
NameInputs == {Str("A"), Num(1)}
ScalarInputs == {Str("MAX"), Str("min"), Str("x"), Num(MaxVal), None}
MaxTimes == {Num(0), Num(MaxVal)}
AttrInputs == {Num(MaxVal), Str("x")}
AttrReplies == {"1", "bogus"}
TriggerInputs == {Num(MaxVal), Str("software"), Str("external")}
UnitReplies == {"DEG C", "DEG F", "junk"}
DisplayStrings == {Str("A"), None}
ScalarReplies == {ToString(MaxVal), "MAX", ""}
EnumReplies == {"int", "EXT", "pos", "bogus"}
AlcInputs == {Str("internal"), Str("external"), Str("bogus")}
DetectorInputs == {Str("sample"), Str("maximum_peak"), Str("bogus")}
ScaleReplies == {"0", "1", "bogus"}
OnOffReplies == {"1", "OFF", "bogus"}
TraceSelectors == {Num(0), Num(trace_count + 1), Str("Math"), Str("X")}
RangeSelectors == {Num(1), Num(Len(range_name)), Str("A"), Str("X")}

\* dictionaries for a configuration group, over two keys k1 and k2 of the
\* group's table and one key that is in no table: a dictionary is the list of
\* its items in the order the client inserted them
ConfigDicts(k1, k2) ==
    { << <<k1, Num(1)>> >>,
      << <<"bogus", Num(1)>> >>,
      << <<k1, Num(1)>>, <<k2, Bool(TRUE)>> >>,
      << <<k1, Num(1)>>, <<"bogus", Num(1)>> >>,
      << <<"bogus", Num(1)>>, <<k1, Num(1)>> >>,
      << <<k1, Str("abc")>> >> }

FailAts == 0..2

\* the fields of a reply to *IDN?, split at the commas
IdnFields == { <<"TEKTRONIX", "RSA306B", "B010101", "FV:1.0">>, <<"junk">> }
\* replies to VER? and model strings read from *IDN?
IdReplies == { <<"SUN", " ", "EC1A", " ", "Ver1.0">>, <<"SUN", " ">>, <<"8542B">>,
               <<"B&K Precision", ",", " ", "8542B">> }
InitFailAts == 0..4

-----------------------------------------------------------------------------
(* Construction *)

\* load.Base.__init__ and _init_channels
InitLoad ==
    /\ channel = Num(0)
    /\ channel_name = [i \in 1..channel_count |-> "CH" \o ToString(i)]
    /\ channel_mode = [i \in 1..channel_count |-> "constant_current"]
    /\ channel_field =
         [f \in ChannelFields |->
            [i \in 1..channel_count |->
               CASE f \in {"input_enabled", "input_shorted"} -> Bool(FALSE)
                 [] f = "voltage_range_auto" -> Bool(TRUE)
                 [] f = "voltage_on" -> Tenth
                 [] OTHER -> Num(0)]]
    /\ trigger = [f \in TriggerFields |-> Unset]

\* tektronixBaseRSA.__init__; the fields it leaves to its base classes hold
\* their numeric default
InitRsa ==
    /\ fld = [f \in Fields |->
                CASE f = "rf_power_mode" -> Str("fixed")
                  [] f = "alc_source" -> Str("internal")
                  \* set by the constructor of specan.Base
                  [] f = "acquisition_detector_type" -> Str("")
                  [] f = "acquisition_vertical_scale" -> Str("logarithmic")
                  [] f = "sweep_coupling_resolution_bandwidth_auto" -> Bool(FALSE)
                  [] OTHER -> Num(0)]
    /\ cache_valid = [t \in Tags |-> FALSE]

Init ==
    /\ driver \in Drivers
    /\ simulate \in BOOLEAN
    /\ identity = <<>>
    /\ InitLoad
    /\ InitRsa
    /\ last = NoOp
    /\ touched = FALSE
    /\ nops = 0

-----------------------------------------------------------------------------
(* The client's operations.  One action per attribute get, attribute set or *)
(* method call; the client issues at most MaxOps of them.                   *)

Rsa == nops < MaxOps /\ driver = "tektronixBaseRSA"
Sun == nops < MaxOps /\ driver = "sunEC1X"
Load == nops < MaxOps /\ driver \in LoadDrivers

GetFrequencyStart == Rsa /\ \E r \in NumReplies, io \in IO : get_frequency_start(r, io)
SetFrequencyStart == Rsa /\ \E v \in NumInputs, io \in IO : set_frequency_start(v, io)
GetFrequencyStop == Rsa /\ \E r \in NumReplies, io \in IO : get_frequency_stop(r, io)
GetFrequencyCenter == Rsa /\ \E r \in NumReplies, io \in IO : get_frequency_center(r, io)
SetFrequencyCenter == Rsa /\ \E v \in NumInputs, io \in IO : set_frequency_center(v, io)
GetFrequencySpan == Rsa /\ \E r \in NumReplies, io \in IO : get_frequency_span(r, io)
SetFrequencySpan == Rsa /\ \E v \in NumInputs, io \in IO : set_frequency_span(v, io)
GetFrequencyOffset == Rsa /\ \E r \in NumReplies, io \in IO : get_frequency_offset(r, io)
GetLevelReferenceOffset ==
    Rsa /\ \E r \in NumReplies, io \in IO : get_level_reference_offset(r, io)
GetResolutionBandwidth ==
    Rsa /\ \E r \in NumReplies, io \in IO : get_sweep_coupling_resolution_bandwidth(r, io)
SetResolutionBandwidth ==
    Rsa /\ \E v \in NumInputs, io \in IO : set_sweep_coupling_resolution_bandwidth(v, io)
GetResolutionBandwidthAuto == Rsa /\ get_sweep_coupling_resolution_bandwidth_auto
SetResolutionBandwidthAuto ==
    Rsa /\ \E v \in BoolInputs, r \in NumReplies, askIo \in IO, writeIo \in IO :
              set_sweep_coupling_resolution_bandwidth_auto(v, r, askIo, writeIo)
GetVideoBandwidth ==
    Rsa /\ \E r \in NumReplies, io \in IO : get_sweep_coupling_video_bandwidth(r, io)
GetRfPowerMode == Rsa /\ get_rf_power_mode
SetRfPowerMode == Rsa /\ \E v \in PowerModeInputs, io \in IO : set_rf_power_mode(v, io)
GetOscillatorSource == Rsa /\ \E r \in TokenReplies, io \in IO : get_oscillator_source(r, io)
SetOscillatorSource == Rsa /\ \E v \in OscillatorInputs, io \in IO : set_oscillator_source(v, io)
GetOscillatorLocked == Rsa /\ \E r \in TokenReplies, io \in IO : get_oscillator_locked(r, io)
GetLevelAmplitudeUnits ==
    Rsa /\ \E r \in TokenReplies, io \in IO : get_level_amplitude_units(r, io)
SetLevelAmplitudeUnits ==
    Rsa /\ \E v \in UnitInputs, io \in IO : set_level_amplitude_units(v, io)
AcquisitionAbort == Rsa /\ \E io \in IO : acquisition_abort(io)
AcquisitionStart == Rsa /\ \E io \in IO : acquisition_start(io)
AcquisitionResume == Rsa /\ \E io \in IO : acquisition_resume(io)
SpuriousPreset == Rsa /\ \E io \in IO : spurious_preset(io)
RsaUtilityReset == Rsa /\ \E io \in IO : rsa_utility_reset(io)
MemorySave == Rsa /\ \E i \in MemoryInputs : memory_save(i)
MemoryRecall == Rsa /\ \E i \in MemoryInputs : memory_recall(i)

GetSpuriousConfig ==
    Rsa /\ \E r \in NumReplies, n \in FailAts : get_spurious_config(r, n)
SetSpuriousConfig ==
    Rsa /\ \E d \in ConfigDicts("reference_power", "list") : set_spurious_config(d)
GetSpuriousCarrierConfig ==
    Rsa /\ \E r \in NumReplies, n \in FailAts : get_spurious_carrier_config(r, n)
SetSpuriousCarrierConfig ==
    Rsa /\ \E d \in ConfigDicts("bandwidth", "bandwidth_resolution_auto"), n \in FailAts :
              set_spurious_carrier_config(d, n)
GetDisplaySpuriousConfig ==
    Rsa /\ \E r \in NumReplies, n \in FailAts : get_display_spurious_config(r, n)
SetDisplaySpuriousConfig ==
    Rsa /\ \E d \in ConfigDicts("x_start", "graticule_grid"), n \in FailAts :
              set_display_spurious_config(d, n)
GetSpuriousRangesConfig ==
    Rsa /\ \E sel \in RangeSelectors, r \in NumReplies, n \in FailAts :
              IF get_index_ok(range_name, sel)
              THEN get_spurious_ranges_config(get_index(range_name, sel), r, n)
              ELSE index_error("get", "spurious_ranges_config")
SetSpuriousRangesConfig ==
    Rsa /\ \E sel \in RangeSelectors, d \in ConfigDicts("video_bandwidth", "state"),
              n \in FailAts :
              IF get_index_ok(range_name, sel)
              THEN set_spurious_ranges_config(get_index(range_name, sel), d, n)
              ELSE index_error("set", "spurious_ranges_config")
GetSpuriousTracesConfig ==
    Rsa /\ \E sel \in TraceSelectors, r \in NumReplies, n \in FailAts :
              IF get_index_ok(trace_name, sel)
              THEN get_spurious_traces_config(get_index(trace_name, sel), r, n)
              ELSE index_error("get", "spurious_traces_config")
SetSpuriousTracesConfig ==
    Rsa /\ \E sel \in TraceSelectors, d \in ConfigDicts("count", "enabled"),
              n \in FailAts :
              IF get_index_ok(trace_name, sel)
              THEN set_spurious_traces_config(get_index(trace_name, sel), d, n)
              ELSE index_error("set", "spurious_traces_config")
GetAlcSource == Rsa /\ \E r \in EnumReplies, io \in IO : get_alc_source(r, io)
SetAlcSource == Rsa /\ \E v \in AlcInputs, io \in IO : set_alc_source(v, io)
GetDetectorType ==
    Rsa /\ \E r \in EnumReplies, io \in IO : get_acquisition_detector_type(r, io)
SetDetectorType ==
    Rsa /\ \E v \in DetectorInputs, io \in IO : set_acquisition_detector_type(v, io)
GetVerticalScale ==
    Rsa /\ \E r \in ScaleReplies, io \in IO : get_acquisition_vertical_scale(r, io)
GetLevelAttenuationAuto ==
    Rsa /\ \E r \in OnOffReplies, io \in IO : get_level_attenuation_auto(r, io)
RsaSetReadOnly ==
    Rsa /\ \E path \in RsaPaths : rsa_setter(path) = "None" /\ property_set_readonly(path)

RsaInitialize ==
    Rsa /\ \E q \in BOOLEAN, r \in BOOLEAN, idn \in IdnFields, n \in InitFailAts :
              rsa_initialize(q, r, idn, "RSA306B", n)
SunInitialize ==
    Sun /\ \E q \in BOOLEAN, r \in BOOLEAN, id \in IdReplies, n \in InitFailAts :
              sun_initialize(q, r, id, n)
\* in simulate mode the SCPI load consults no transport: the outcome of a
\* transport call and the text of a reply are inputs in non-simulate mode only
Transport(S, idle) == IF simulate THEN {idle} ELSE S
ScpiInitialize ==
    Load /\ driver \in ScpiDrivers
         /\ \E q \in BOOLEAN, r \in BOOLEAN, n \in Transport(InitFailAts, 0) :
               \* the identification is read only when id_query is set
               \E id \in (IF q THEN Transport(IdReplies, <<"8542B">>) ELSE {<<"8542B">>}) :
                  scpi_initialize(q, r, id, n)

GetTemperature == Sun /\ \E r \in NumReplies, io \in IO : get_temperature(r, io)
GetUserTemperature == Sun /\ \E r \in NumReplies, io \in IO : get_user_temperature(r, io)
GetHourMeter == Sun /\ \E r \in NumReplies, io \in IO : get_hour_meter(r, io)
GetChamberRate == Sun /\ \E r \in NumReplies, io \in IO : get_chamber_rate(r, io)
GetTemperatureSetpoint ==
    Sun /\ \E r \in NumReplies \cup {"junk"}, io \in IO : get_temperature_setpoint(r, io)
\* a set of a property runs the setter it was registered with
SunSetProperty ==
    Sun /\ \E path \in SunPaths, v \in NumInputs \cup BoolInputs, io \in IO :
        LET setter == sun_setter(path) IN
        CASE setter = "None" -> property_set_readonly(path)
          [] setter = "set_cooler_enabled" -> set_cooler_enabled(path, v, io)
          [] setter = "set_heater_enabled" -> set_heater_enabled(path, v, io)
          [] setter = "set_temperature_setpoint" -> set_temperature_setpoint(path, v, io)
          [] setter = "set_chamber_rate" -> set_chamber_rate(path, v, io)
          [] setter = "set_upper_temperature_limit" -> set_upper_temperature_limit(path, v, io)
          [] setter = "set_lower_temperature_limit" -> set_lower_temperature_limit(path, v, io)
SunUtilityReset == Sun /\ \E n \in 0..3 : sun_utility_reset(n)

GetChannel ==
    Load /\ \E io \in IO :
        LET c == get_channel(io) IN Ends("get", "channel", c.status, c.ret, c.sent)
SetChannel == Load /\ \E sel \in ChannelSelectors, io \in IO : set_channel(sel, io)
GetName == Load /\ \E io \in IO : get_name(io)
SetName == Load /\ \E v \in NameInputs : set_name(v)
GetChannelName ==
    Load /\ \E sel \in ChannelSelectors, io \in IO : channels_name_get(sel, io)
SetChannelName ==
    Load /\ \E sel \in ChannelSelectors, v \in NameInputs : channels_name_set(sel, v)
GetMode == Load /\ \E r \in ModeReplies, io \in IO : get_mode(r, io)
SetMode == Load /\ \E v \in LoadModeInputs, io \in IO : set_mode(v, io)
MeasurementInitiate == Load /\ measurement_initiate
MeasurementAbort == Load /\ measurement_abort
MeasurementFetch == Load /\ \E t \in MaxTimes : measurement_fetch(t)
MeasurementRead == Load /\ \E t \in MaxTimes : measurement_read(t)
\* The accessors that scpi.load.Base inherits unchanged (the trigger
\* attributes, voltage.range_auto, voltage.protection, the range predicates)
\* are exercised on load.Base, the class that defines them; the numeric
\* attributes of the SCPI load are reached through GetScalar and SetScalar.
GetChannelAttr ==
    Load /\ \E attr \in ChannelAttrs :
              IF driver = "load" \/ attr \in BareCalls
              THEN get_channel_attr(attr, "1", "ok")
              ELSE /\ attr = "input_enabled"
                   /\ \E r \in AttrReplies, io \in IO : get_channel_attr(attr, r, io)
SetChannelAttr ==
    Load /\ \E attr \in ChannelAttrs :
              IF driver = "load"
              THEN \E v \in AttrInputs : set_channel_attr(attr, v, "ok")
              ELSE IF attr \in BareCalls THEN set_channel_attr(attr, Bool(TRUE), "ok")
              ELSE /\ attr = "input_enabled"
                   /\ \E v \in {Bool(TRUE), Num(0)}, io \in IO : set_channel_attr(attr, v, io)
GetTrigger == Load /\ driver = "load" /\ \E f \in TriggerFields : get_trigger(f)
SetTrigger ==
    Load /\ driver = "load" /\ \E f \in TriggerFields, v \in TriggerInputs : set_trigger(f, v)
\* SoftwareTrigger is an extension class of load.py; no driver class adds it
SendSoftwareTrigger == Load /\ driver = "load" /\ send_software_trigger
\* the three predicates ignore their argument
MeasurementIsOverRange == Load /\ driver = "load" /\ measurement_is_over_range(Inf)
MeasurementIsUnderRange == Load /\ driver = "load" /\ measurement_is_under_range(Inf)
MeasurementIsOutOfRange == Load /\ driver = "load" /\ measurement_is_out_of_range(Inf)
GetTemperatureUnit ==
    Sun /\ \E r1 \in UnitReplies, r2 \in UnitReplies, n \in 0..2 :
             (n = 0 \/ (r1 = "junk" /\ r2 = "junk")) /\ get_temperature_unit(r1, r2, n)
GetIdentityInstrumentModel ==
    Rsa /\ \E idn \in IdnFields, n \in 0..3 :
             /\ (simulate \/ cache_valid["identity_instrument_model"])
                   => (n = 0 /\ Len(idn) = 4)
             /\ get_identity_instrument_model(idn, "RSA306B", n)
SystemDisplayString ==
    Rsa /\ \E v \in DisplayStrings, n \in 0..4 :
             (n = 0 \/ v = None) /\ system_display_string(v, n)
\* a reply is read only when the query returns; a string other than MIN and MAX
\* and a value that is no number reach no write
GetScalar == /\ Load /\ driver \in ScpiDrivers
             /\ \E name \in ScalarGetNames, io \in Transport(IO, "ok") :
                  \E reply \in (IF io = "ok" THEN Transport(ScalarReplies, "") ELSE {""}) :
                     get_scalar(name, reply, io)
SetScalar == /\ Load /\ driver \in ScpiDrivers
             /\ \E name \in ScalarNames, value \in ScalarInputs :
                  \E io \in (IF value \in {Str("x"), None} THEN {"ok"}
                              ELSE Transport(IO, "ok")) :
                     set_scalar(name, value, io)

Next ==
    \/ GetFrequencyStart \/ SetFrequencyStart \/ GetFrequencyStop
    \/ GetFrequencyCenter \/ SetFrequencyCenter
    \/ GetFrequencySpan \/ SetFrequencySpan
    \/ GetFrequencyOffset \/ GetLevelReferenceOffset
    \/ GetResolutionBandwidth \/ SetResolutionBandwidth
    \/ GetResolutionBandwidthAuto \/ SetResolutionBandwidthAuto
    \/ GetVideoBandwidth
    \/ GetRfPowerMode \/ SetRfPowerMode
    \/ GetOscillatorSource \/ SetOscillatorSource \/ GetOscillatorLocked
    \/ GetLevelAmplitudeUnits \/ SetLevelAmplitudeUnits
    \/ AcquisitionAbort \/ AcquisitionStart \/ AcquisitionResume \/ SpuriousPreset
    \/ RsaUtilityReset \/ MemorySave \/ MemoryRecall
    \/ GetSpuriousConfig \/ SetSpuriousConfig
    \/ GetSpuriousCarrierConfig \/ SetSpuriousCarrierConfig
    \/ GetDisplaySpuriousConfig \/ SetDisplaySpuriousConfig
    \/ GetSpuriousRangesConfig \/ SetSpuriousRangesConfig
    \/ GetSpuriousTracesConfig \/ SetSpuriousTracesConfig
    \/ RsaSetReadOnly
    \/ GetTemperature \/ GetUserTemperature \/ GetHourMeter \/ GetChamberRate
    \/ GetTemperatureSetpoint \/ SunSetProperty \/ SunUtilityReset
    \/ GetChannel \/ SetChannel \/ GetName \/ SetName
    \/ GetChannelName \/ SetChannelName \/ GetMode \/ SetMode
    \/ RsaInitialize \/ SunInitialize \/ ScpiInitialize
    \/ GetScalar \/ SetScalar
    \/ MeasurementInitiate \/ MeasurementAbort \/ MeasurementFetch \/ MeasurementRead
    \/ GetAlcSource \/ SetAlcSource \/ GetDetectorType \/ SetDetectorType
    \/ GetVerticalScale \/ GetLevelAttenuationAuto
    \/ GetChannelAttr \/ SetChannelAttr \/ GetTrigger \/ SetTrigger
    \/ SendSoftwareTrigger
    \/ MeasurementIsOverRange \/ MeasurementIsUnderRange \/ MeasurementIsOutOfRange
    \/ GetTemperatureUnit \/ SystemDisplayString
    \/ GetIdentityInstrumentModel

Spec == Init /\ [][Next]_vars

-----------------------------------------------------------------------------
(* The translation alone: a value is encoded as its setter encodes it and   *)
(* the token is decoded as the getter of the same attribute decodes it      *)

\* the kinds of attribute of the instantiated driver
CodecKinds ==
    IF driver = "tektronixBaseRSA" THEN {"onoff", "alc_source", "acquisition_detector_type"}
    ELSE IF driver \in ScpiDrivers THEN {"bool", "scalar", "mode"}
    ELSE {}

CodecValues(kind) ==
    CASE kind \in {"onoff", "bool"} -> {Bool(TRUE), Bool(FALSE)}
      [] kind = "scalar" -> {Num(0), Num(0 - MaxVal), Num(MaxVal), Str("MIN"), Str("MAX")}
      [] OTHER -> {Str(k) : k \in MapKeys(EnumMapping(kind))}

EncodeValue ==
    /\ nops < MaxOps
    /\ \E kind \in CodecKinds : \E v \in CodecValues(kind) :
         last' = [op |-> "encode", name |-> kind, status |-> Encode(kind, v).status,
                  ret |-> v, sent |-> <<Encode(kind, v).tok>>]
    /\ nops' = nops + 1
    /\ UNCHANGED <<ConfigVars, LoadVars, RsaVars, touched>>

DecodeToken ==
    /\ last.op = "encode" /\ last.status = "ok"
    /\ last' = [op |-> "decode", name |-> last.name,
                status |-> Decode(last.name, last.sent[1]).status,
                ret |-> Decode(last.name, last.sent[1]).ret, sent |-> last.sent]
    /\ UNCHANGED <<ConfigVars, LoadVars, RsaVars, touched, nops>>

CodecNext == EncodeValue \/ DecodeToken

CodecSpec == Init /\ [][CodecNext]_vars

-----------------------------------------------------------------------------
(* Properties *)

\* C1: while simulate is true no get, set or method call reaches the
\* transport: no write and no ask is ever issued.
C1_SimulateIssuesNoTransportCall ==
    simulate => (~touched /\ last.sent = <<>>)

\* C2: a set that fails, on a rejected value or on a raising write, leaves the
\* stored value and the validity flag of its attribute as they were and
\* changes the validity flag of no other attribute.
C2_FailedSetLeavesCacheUntouched ==
    [][(last'.op = "set" /\ last'.status # "ok")
         => /\ cache_valid' = cache_valid
            /\ last'.name \in Fields => fld'[last'.name] = fld[last'.name]
            /\ last'.name = "mode" => channel_mode' = channel_mode
            /\ last'.name = "channel" => channel' = channel
            /\ last'.name \in {"name", "channels[].name"} => channel_name' = channel_name]_vars

\* whether a dictionary holds a key that the settings table does not list
HasUnknownKey(settings, values) ==
    \E i \in DOMAIN values : values[i][1] \notin SettingKeys(settings)

\* C3: a set of a configuration group whose dictionary holds a key outside
\* the group's table fails with ValueNotSupportedException and writes no
\* command, not even for the valid keys that come before the unknown one.
C3_UnknownKeyWritesNothing ==
    [][\A d \in ConfigDicts("bandwidth", "bandwidth_resolution_auto"), n \in FailAts :
          (Rsa /\ HasUnknownKey(SpurCarrierSettings, d) /\ set_spurious_carrier_config(d, n))
            => (last'.status = "ValueNotSupportedException" /\ last'.sent = <<>>)]_vars

\* the last operation was a set of frequency.center that succeeded
CenterWasSet ==
    last.op = "set" /\ last.name = "frequency_center" /\ last.status = "ok"

CachedGetters == {"frequency_start", "frequency_stop", "frequency_center", "frequency_span",
                  "frequency_offset", "level_reference_offset",
                  "sweep_coupling_resolution_bandwidth", "sweep_coupling_video_bandwidth"}

\* a get of the attribute with a reply that arrives
CachedGet(attr, reply) ==
    CASE attr = "frequency_start" -> get_frequency_start(reply, "ok")
      [] attr = "frequency_stop" -> get_frequency_stop(reply, "ok")
      [] attr = "frequency_center" -> get_frequency_center(reply, "ok")
      [] attr = "frequency_span" -> get_frequency_span(reply, "ok")
      [] attr = "frequency_offset" -> get_frequency_offset(reply, "ok")
      [] attr = "level_reference_offset" -> get_level_reference_offset(reply, "ok")
      [] attr = "sweep_coupling_resolution_bandwidth" ->
             get_sweep_coupling_resolution_bandwidth(reply, "ok")
      [] attr = "sweep_coupling_video_bandwidth" ->
             get_sweep_coupling_video_bandwidth(reply, "ok")

\* C5: in non-simulate mode a get of a cached attribute whose entry is invalid
\* stores the reply in the attribute's own backing field, marks the attribute
\* valid, returns the reply and changes no other backing field.
C5_GetStoresReplyInOwnField ==
    [][\A attr \in CachedGetters, r \in NumReplies :
          (Rsa /\ ~simulate /\ ~cache_valid[attr] /\ CachedGet(attr, r))
            => /\ fld'[attr] = Num(ParseNum(r))
               /\ cache_valid'[attr]
               /\ last'.ret = Num(ParseNum(r))
               /\ \A f \in Fields \ {attr} : fld'[f] = fld[f]]_vars

\* C6: a set of mode to a value outside constant_current, constant_voltage,
\* constant_power, constant_resistance fails with ValueNotSupportedException,
\* sends no command and leaves the cached mode unchanged, on the generic load
\* and on the SCPI load.
C6_ModeOutsideEnumRejected ==
    [][\A v \in LoadModeInputs, io \in IO :
          (Load /\ driver \in {"load", "scpi_load"} /\ v.s \notin LoadMode /\ set_mode(v, io))
            => /\ last'.status = "ValueNotSupportedException"
               /\ last'.sent = <<>>
               /\ channel_mode' = channel_mode]_vars

\* the attributes registered with a getter and no setter
ReadOnlyPaths == {"identity.instrument_serial_number", "chamber_temperature",
                  "user_temperature", "temperature_unit", "hour_meter",
                  "oscillator_locked"}

\* C7: a set of an attribute that has a getter only fails with
\* ReadOnlyAttribute, sends no command and changes no state.
C7_ReadOnlySetRejected ==
    [][(last'.op = "set" /\ last'.name \in ReadOnlyPaths)
         => /\ last'.status = "ReadOnlyAttribute"
            /\ last'.sent = <<>>
            /\ UNCHANGED <<ConfigVars, LoadVars, RsaVars>>]_vars

\* a set of hour_meter on the chamber was refused, on the instrument
C7_Witness ==
    /\ driver = "sunEC1X" /\ ~simulate
    /\ last.op = "set" /\ last.name = "hour_meter" /\ last.status = "ReadOnlyAttribute"

\* C8: an indexed operation or a channel selection whose selector is not in
\* the owning collection fails with SelectorRangeException before any command
\* is sent and before any state changes.
C8_BadSelectorRejectedFirst ==
    [][/\ \A sel \in ChannelSelectors, io \in IO :
            (Load /\ ~get_index_ok(channel_name, sel) /\ set_channel(sel, io))
              => /\ last'.status = "SelectorRangeException"
                 /\ last'.sent = <<>>
                 /\ UNCHANGED LoadVars
       /\ (last'.name \in {"channels[].name", "spurious_ranges_config",
                           "spurious_traces_config"}
           /\ last'.status = "SelectorRangeException")
              => (last'.sent = <<>> /\ UNCHANGED <<LoadVars, RsaVars>>)]_vars

\* C9: the current channel is always an integer c with 0 <= c < channel_count.
C9_CurrentChannelInRange ==
    driver \in LoadDrivers
      => (channel.k = "num" /\ 0 <= channel.n /\ channel.n < channel_count)

\* C10: for a valid selector i, get channels[i].name returns the name stored
\* in slot i and set channels[i].name = n stores n in slot i and no other,
\* whichever channel is selected.
C10_ChannelNameUsesSlot ==
    [][\A sel \in ChannelSelectors :
          get_index_ok(channel_name, sel)
            => LET i == get_index(channel_name, sel) + 1 IN
               /\ (Load /\ channels_name_get(sel, "ok"))
                    => (last'.status = "ok" /\ last'.ret = Str(channel_name[i]))
               /\ \A n \in NameInputs :
                    (Load /\ n.k = "str" /\ channels_name_set(sel, n))
                      => /\ last'.status = "ok"
                         /\ channel_name'[i] = n.s
                         /\ \A j \in DOMAIN channel_name \ {i} :
                               channel_name'[j] = channel_name[j]]_vars

\* C12: after a successful recall(index) every cache entry is invalid, so that
\* the next get of a cached attribute asks the instrument again.
C12_RecallInvalidatesAll ==
    [][(last'.op = "call" /\ last'.name = "memory_recall" /\ last'.status = "ok")
         => \A t \in Tags : ~cache_valid'[t]]_vars

\* C13: a reset that returns, and an initialize with reset that returns, has
\* issued the reset sequence and left no cache entry valid, in simulate mode
\* as in non-simulate mode.
C13_ResetInvalidatesAll ==
    [][(/\ last'.status = "ok"
        /\ \/ last'.op = "call" /\ last'.name = "utility_reset"
           \/ \E q \in BOOLEAN, idn \in IdnFields, n \in InitFailAts :
                 Rsa /\ rsa_initialize(q, TRUE, idn, "RSA306B", n)
           \/ \E q \in BOOLEAN, id \in IdReplies, n \in InitFailAts :
                 Load /\ driver \in ScpiDrivers /\ scpi_initialize(q, TRUE, id, n))
         => \A t \in Tags : ~cache_valid'[t]]_vars

\* C14: save(index) and recall(index) with index outside [0, memory_size) fail
\* with OutOfRangeException, send nothing and invalidate nothing; with index
\* inside the range they complete without error.
C14_MemoryIndexChecked ==
    [][\A i \in MemoryInputs :
          (Rsa /\ (memory_save(i) \/ memory_recall(i)))
            => IF i.n < 0 \/ i.n >= memory_size
               THEN /\ last'.status = "OutOfRangeException"
                    /\ last'.sent = <<>>
                    /\ cache_valid' = cache_valid
               ELSE last'.status = "ok"]_vars

\* the reset sequence was not written during the last operation
NoResetSent == \A i \in DOMAIN last.sent : last.sent[i] \notin ResetCommands

\* C15: initialize with id_query in non-simulate mode fails with
\* InstrumentIdMismatch whenever the identification read from the instrument
\* does not start with the driver's id string, and then no reset command has
\* been sent.
C15_IdMismatchBeforeReset ==
    [][(~simulate /\ last'.name = "initialize")
         => \A r \in BOOLEAN, id \in IdReplies :
              (/\ Prefix(id, Len(instrument_id)) # instrument_id
               /\ \/ Sun /\ sun_initialize(TRUE, r, id, 0)
                  \/ /\ Load /\ driver \in ScpiDrivers
                     /\ ~cache_valid["identity_instrument_model"]
                     /\ scpi_initialize(TRUE, r, id, 0))
                => (last'.status = InstrumentIdMismatch /\ NoResetSent')]_vars

\* an initialize with reset asked for ended on the identification mismatch,
\* after the identification query and nothing else was sent
C15_Witness ==
    /\ driver = "sunEC1X" /\ ~simulate
    /\ last.name = "initialize" /\ last.status = InstrumentIdMismatch
    /\ last.sent = <<"ON", "VER?">>

\* C16: a numeric setter of the SCPI load whose write goes through sends the
\* mnemonic MIN or MAX for the string MIN or MAX in any letter case, and the
\* decimal floating-point token of the number for a number.
MinSpellings == {"MIN", "min", "Min"}
MaxSpellings == {"MAX", "max", "Max"}

C16_NumericSetterToken ==
    [][(Load /\ driver \in ScpiDrivers /\ ~simulate
             /\ last'.op = "set" /\ last'.name \in ScalarNames)
         => \A value \in ScalarInputs :
              set_scalar(last'.name, value, "ok")
                => /\ (value.k = "str" /\ value.s \in MinSpellings)
                        => last'.sent = <<ScalarCommand[last'.name] \o " MIN">>
                   /\ (value.k = "str" /\ value.s \in MaxSpellings)
                        => last'.sent = <<ScalarCommand[last'.name] \o " MAX">>
                   /\ value.k = "num"
                        => last'.sent = <<ScalarCommand[last'.name] \o " "
                                            \o ToString(value.n) \o ".0">>]_vars

\* current.protection has been set to "min" and to a number on a real instrument
C16_Witness ==
    /\ driver \in ScpiDrivers /\ ~simulate
    /\ last.op = "set" /\ last.name = "current_protection" /\ last.status = "ok"
    /\ last.sent = <<":CURR:PROT MIN">>

\* C17: decoding the token a value was encoded to gives the value back, for
\* the booleans, the numbers, the strings MIN and MAX, and every key of
\* LoadModeMapping, ALCSourceMapping and DetectorTypeMapping.
C17_RoundTrip ==
    [][last'.op = "decode" => (last'.status = "ok" /\ last'.ret = last.ret)]_vars

\* C17, amended: the round trip holds for the booleans, the numbers and every
\* key of the three mappings; the token of MIN or MAX is not decoded, the
\* getter raises ValueError on it.
C17_RoundTripButMnemonics ==
    [][last'.op = "decode"
         => IF last.name = "scalar" /\ last.ret.k = "str"
            THEN last'.status = "ValueError"
            ELSE last'.status = "ok" /\ last'.ret = last.ret]_vars

\* the key 'external' has been written as ext and read back
C17_Witness ==
    /\ last.op = "decode" /\ last.name = "alc_source"
    /\ last.sent = <<"ext">> /\ last.ret = Str("external")

\* C18: a set of an enumerated attribute to a value that is no key of its
\* table fails with ValueNotSupportedException; a get whose reply is no
\* mnemonic of the table fails with ProtocolError, returns nothing and leaves
\* the stored value and the validity flag as they were.
C18_EnumErrors ==
    [][/\ \A v \in AlcInputs, io \in IO :
            (Rsa /\ v.s \notin MapKeys(ALCSourceMapping) /\ set_alc_source(v, io))
              => last'.status = "ValueNotSupportedException"
       /\ \A v \in DetectorInputs, io \in IO :
            (Rsa /\ v.s \notin MapKeys(DetectorTypeMapping)
                 /\ set_acquisition_detector_type(v, io))
              => last'.status = "ValueNotSupportedException"
       /\ \A v \in LoadModeInputs, io \in IO :
            (Load /\ driver \in ScpiDrivers /\ v.s \notin LoadModeKeys /\ scpi_set_mode(v, io))
              => last'.status = "ValueNotSupportedException"
       /\ \A r \in EnumReplies :
            (Rsa /\ ~simulate /\ ~cache_valid["alc_source"]
                 /\ MapHits(ALCSourceMapping, Lower(r)) = {} /\ get_alc_source(r, "ok"))
              => (/\ last'.status = "ProtocolError" /\ last'.ret = None
                  /\ fld' = fld /\ cache_valid' = cache_valid)
       /\ \A r \in EnumReplies :
            (Rsa /\ ~simulate /\ ~cache_valid["acquisition_detector_type"]
                 /\ MapHits(DetectorTypeMapping, Lower(r)) = {}
                 /\ get_acquisition_detector_type(r, "ok"))
              => (/\ last'.status = "ProtocolError" /\ last'.ret = None
                  /\ fld' = fld /\ cache_valid' = cache_valid)
       /\ \A r \in ModeReplies :
            (Load /\ driver \in ScpiDrivers /\ ~simulate
                  /\ MapHits(LoadModeMapping, Upper(r)) = {} /\ scpi_get_mode(r, "ok"))
              => (/\ last'.status = "ProtocolError" /\ last'.ret = None
                  /\ channel_mode' = channel_mode)]_vars

\* C19: a getter whose reply cannot be parsed, or is none of the expected
\* tokens, ends in an error; it returns no default or substitute value.
C19_BadReplyIsAnError ==
    [][/\ (Sun /\ ~simulate /\ get_temperature_setpoint("junk", "ok"))
            => last'.status # "ok"
       /\ (Rsa /\ ~simulate /\ ~cache_valid["acquisition_vertical_scale"]
               /\ get_acquisition_vertical_scale("bogus", "ok"))
            => last'.status # "ok"
       /\ (Rsa /\ ~simulate /\ get_level_attenuation_auto("bogus", "ok"))
            => last'.status # "ok"]_vars

\* C20: fetch delivers only the result of an acquisition that initiate
\* started: a fetch issued while no initiate has been issued on the driver
\* delivers no result.
C20_FetchNeedsInitiate ==
    [][\A t \in MaxTimes :
         (Load /\ nops = 0 /\ measurement_fetch(t)) => last'.status # "ok"]_vars

\* C21: a measured value equal to the over-range sentinel is reported as out
\* of range: is_over_range and is_out_of_range answer true for it.
C21_SentinelIsOutOfRange ==
    [][/\ (Load /\ measurement_is_over_range(Inf)) => last'.ret = Bool(TRUE)
       /\ (Load /\ measurement_is_out_of_range(Inf)) => last'.ret = Bool(TRUE)]_vars

C23_AtMostOneCommand == Len(last.sent) <= 1

\* C24: in simulate mode a numeric getter does not fail and does not return
\* None: it returns a number, its default.
C24_SimulateNumericDefault ==
    (simulate /\ last.op = "get" /\ last.name \in ScalarGetNames)
        => (last.status = "ok" /\ last.ret.k = "num")

\* C25: in simulate mode a get that follows a successful set(v) returns v:
\* once input.enabled of the SCPI load has been set to True, the value a get
\* returns is True.
C25_SimulateSetThenGet ==
    [][(/\ Load /\ driver \in ScpiDrivers /\ simulate
        /\ scpi_set_input_enabled(Bool(TRUE), "ok") /\ last'.status = "ok")
         => (load_field_value("input_enabled"))'.ret = Bool(TRUE)]_vars

\* C26: a get of trigger.delay, trigger.delay_auto, trigger.source or of a
\* per-channel attribute of the generic load, issued right after
\* construction, does not fail and returns a value.
C26_LocalAttributesHaveDefaults ==
    [][/\ \A f \in TriggerFields :
            (Load /\ nops = 0 /\ get_trigger(f))
              => (last'.status = "ok" /\ last'.ret # None)
       /\ \A a \in ChannelAttrs :
            (Load /\ driver = "load" /\ nops = 0 /\ load_get_field(a))
              => (last'.status = "ok" /\ last'.ret # None)]_vars

\* C27: in the generic load a successful set(a, v) of a per-channel attribute
\* makes a get of a return v (as the setter converts it) and leaves the value
\* a get of any other per-channel attribute returns as it was.
C27_OwnBackingField ==
    [][\A a \in ChannelAttrs, v \in AttrInputs :
         (Load /\ driver = "load" /\ load_set_field(a, v) /\ last'.status = "ok")
           => /\ (load_field_value(a))'.ret = Cast(SetCast[a], v)
              /\ \A b \in ChannelAttrs \ {a} :
                    (load_field_value(b))' = load_field_value(b)]_vars

\* the attributes of the analyzer whose getter consults the value cache
CachedAttrs == CachedGetters \cup {"alc_source", "acquisition_detector_type",
                                   "identity_instrument_model"}

\* the value the driver holds for a cached attribute
StoredValue(attr) ==
    IF attr = "identity_instrument_model" THEN Str(Concat(identity)) ELSE fld[attr]

\* C28: in non-simulate mode a get of a cached attribute whose cache entry is
\* valid sends nothing, returns the stored value and changes no value and no
\* validity flag; hence a cached getter sends a query only when the entry is
\* invalid.
C28_ValidEntryAnswersFromCache ==
    [][(/\ Rsa /\ ~simulate
        /\ last'.op = "get" /\ last'.name \in CachedAttrs
        /\ cache_valid[last'.name])
         => /\ last'.sent = <<>> /\ last'.status = "ok"
            /\ last'.ret = StoredValue(last'.name)
            /\ UNCHANGED <<fld, cache_valid, identity>>]_vars

C28_Witness ==
    /\ driver = "tektronixBaseRSA" /\ ~simulate /\ nops = 2
    /\ last.op = "get" /\ last.name = "frequency_center" /\ last.sent = <<>>
    /\ cache_valid["frequency_center"] /\ last.ret = Num(MaxVal)

C30_EnumMembersAccepted ==
    [][/\ \A v \in {"INT", "int"} :
            (Rsa /\ ~simulate /\ set_oscillator_source(Str(v), "ok"))
              => (last'.status = "ok" /\ last'.sent = <<"ROSC:SOUR INT">>)
       /\ \A v \in {"DBM", "dbm"} :
            (Rsa /\ ~simulate /\ set_level_amplitude_units(Str(v), "ok"))
              => (last'.status = "ok" /\ last'.sent = <<"POW:UNIT DBM">>)]_vars

====
